---- MODULE Spec2Model ----
(***************************************************************************)
(* Model of the fabric-atelier MCP server: the JSON-RPC envelope           *)
(* (mcp/protocol.rs), the dispatcher and the reloadable pattern catalog    *)
(* behind a tokio RwLock (mcp/server.rs), and pattern ingestion            *)
(* (fabric/loader.rs, fabric/pattern.rs).                                  *)
(***************************************************************************)
EXTENDS Integers, Sequences, FiniteSets, TLC

(***************************************************************************)
(* Bounds of the model.                                                    *)
(***************************************************************************)
\* number of reload_patterns callers that may be in flight at once
NumReloaders == 1
\* number of concurrent handle_request callers of the concurrent specification
NumHandlers == 2
\* the callers of reload_patterns whose calls overlap
NumOverlapping == 2

(***************************************************************************)
(* Option<T>: None is the empty sequence, Some(x) the one-element one.     *)
(***************************************************************************)
None == <<>>
Some(x) == <<x>>
IsSome(o) == Len(o) = 1
IsNone(o) == Len(o) = 0
Unwrap(o) == o[1]

(***************************************************************************)
(* serde_json::Value.  An object is a function from its keys to values.    *)
(***************************************************************************)
JNull == [t |-> "null"]
JBool(b) == [t |-> "bool", b |-> b]
JNum(n) == [t |-> "num", n |-> n]
JStr(s) == [t |-> "str", s |-> s]
JArr(a) == [t |-> "arr", a |-> a]
JObj(f) == [t |-> "obj", o |-> f]
EmptyObj == JObj(<<>>)

\* Value::get(key) with a string key: Some only on an object holding the key
Get(v, key) == IF v.t = "obj" /\ key \in DOMAIN v.o THEN Some(v.o[key]) ELSE None
\* Value::as_str
AsStr(v) == IF v.t = "str" THEN Some(v.s) ELSE None
\* Option::and_then
AndThen(o, F(_)) == IF IsSome(o) THEN F(Unwrap(o)) ELSE None

(***************************************************************************)
(* str helpers (ASCII).                                                    *)
(***************************************************************************)
Min(a, b) == IF a < b THEN a ELSE b

StartsWith(s, p) == Len(s) >= Len(p) /\ SubSeq(s, 1, Len(p)) = p

\* str::strip_prefix as it would be if it cut the length of p without comparing
StripPrefixUnchecked(s, p) == IF Len(s) >= Len(p) THEN Some(SubSeq(s, Len(p) + 1, Len(s))) ELSE None

\* str::strip_prefix as it would be if it removed every leading occurrence of p
RECURSIVE StripPrefixRepeated(_, _)
StripPrefixRepeated(s, p) ==
    IF ~StartsWith(s, p) \/ Len(p) = 0 THEN None
    ELSE LET rest == SubSeq(s, Len(p) + 1, Len(s))
         IN IF StartsWith(rest, p) THEN StripPrefixRepeated(rest, p) ELSE Some(rest)

\* str::strip_prefix
StripPrefix(s, p) == IF StartsWith(s, p) THEN Some(SubSeq(s, Len(p) + 1, Len(s))) ELSE None

\* str::contains
Contains(s, sub) == \E i \in 1..(Len(s) - Len(sub) + 1) : SubSeq(s, i, i + Len(sub) - 1) = sub

IsSpace(c) == c \in {" ", "\t", "\n", "\r"}

RECURSIVE TrimStart(_)
TrimStart(s) == IF Len(s) > 0 /\ IsSpace(SubSeq(s, 1, 1)) THEN TrimStart(SubSeq(s, 2, Len(s))) ELSE s

RECURSIVE TrimEnd(_)
TrimEnd(s) ==
    IF Len(s) > 0 /\ IsSpace(SubSeq(s, Len(s), Len(s))) THEN TrimEnd(SubSeq(s, 1, Len(s) - 1)) ELSE s

\* str::trim
Trim(s) == TrimEnd(TrimStart(s))

UpperCase == <<"A", "B", "C", "D", "E", "F", "G", "H", "I", "J", "K", "L", "M",
               "N", "O", "P", "Q", "R", "S", "T", "U", "V", "W", "X", "Y", "Z">>
LowerCase == <<"a", "b", "c", "d", "e", "f", "g", "h", "i", "j", "k", "l", "m",
               "n", "o", "p", "q", "r", "s", "t", "u", "v", "w", "x", "y", "z">>

LowerChar(c) ==
    IF \E k \in 1..Len(UpperCase) : UpperCase[k] = c
    THEN LowerCase[CHOOSE k \in 1..Len(UpperCase) : UpperCase[k] = c]
    ELSE c

\* str::to_lowercase
RECURSIVE ToLower(_)
ToLower(s) ==
    IF Len(s) <= 1 THEN LowerChar(s)
    ELSE LET half == Len(s) \div 2
         IN ToLower(SubSeq(s, 1, half)) \o ToLower(SubSeq(s, half + 1, Len(s)))

\* position of the first "\n" at or after position i, 0 if there is none
RECURSIVE NextNewline(_, _)
NextNewline(s, i) ==
    IF i > Len(s) THEN 0
    ELSE IF SubSeq(s, i, i) = "\n" THEN i
    ELSE NextNewline(s, i + 1)

StripCr(l) == IF Len(l) > 0 /\ SubSeq(l, Len(l), Len(l)) = "\r" THEN SubSeq(l, 1, Len(l) - 1) ELSE l

\* str::lines: split at "\n", a trailing "\r" of a line removed, no last empty line
RECURSIVE Lines(_)
Lines(s) ==
    IF Len(s) = 0 THEN <<>>
    ELSE LET n == NextNewline(s, 1)
         IN IF n = 0 THEN <<StripCr(s)>>
            ELSE <<StripCr(SubSeq(s, 1, n - 1))>> \o Lines(SubSeq(s, n + 1, Len(s)))

\* [&str]::join
RECURSIVE Join(_, _)
Join(ls, sep) ==
    IF Len(ls) = 0 THEN ""
    ELSE IF Len(ls) = 1 THEN ls[1]
    ELSE ls[1] \o sep \o Join(Tail(ls), sep)

\* chars().take(n).collect()
TakeChars(s, n) == SubSeq(s, 1, Min(n, Len(s)))

CharRank(c) ==
    IF \E k \in 1..Len(LowerCase) : LowerCase[k] = c
    THEN CHOOSE k \in 1..Len(LowerCase) : LowerCase[k] = c
    ELSE 0

\* String's Ord: lexicographic, a proper prefix is smaller
RECURSIVE StrLess(_, _)
StrLess(a, b) ==
    IF Len(b) = 0 THEN FALSE
    ELSE IF Len(a) = 0 THEN TRUE
    ELSE LET x == CharRank(SubSeq(a, 1, 1))
             y == CharRank(SubSeq(b, 1, 1))
         IN IF x # y THEN x < y ELSE StrLess(SubSeq(a, 2, Len(a)), SubSeq(b, 2, Len(b)))

\* insertion of x into the sorted sequence ls, after the elements equal to it
RECURSIVE InsertSorted(_, _)
InsertSorted(ls, x) ==
    IF Len(ls) = 0 THEN <<x>>
    ELSE IF StrLess(x, ls[1]) THEN <<x>> \o ls
    ELSE <<ls[1]>> \o InsertSorted(Tail(ls), x)

\* Vec<String>::sort
RECURSIVE SortStrings(_)
SortStrings(ls) == IF Len(ls) = 0 THEN <<>> ELSE InsertSorted(SortStrings(SubSeq(ls, 1, Len(ls) - 1)), ls[Len(ls)])

\* Vec::dedup: consecutive equal elements collapse to the first
RECURSIVE Dedup(_)
Dedup(ls) ==
    IF Len(ls) <= 1 THEN ls
    ELSE IF ls[1] = ls[2] THEN Dedup(Tail(ls))
    ELSE <<ls[1]>> \o Dedup(Tail(ls))

(***************************************************************************)
(* Result<T>                                                               *)
(***************************************************************************)
Ok(v) == [ok |-> TRUE, v |-> v]
Err(e) == [ok |-> FALSE, e |-> e]

(***************************************************************************)
(* mcp/protocol.rs                                                         *)
(***************************************************************************)
PARSE_ERROR == -32700
INVALID_REQUEST == -32600
METHOD_NOT_FOUND == -32601
INVALID_PARAMS == -32602
INTERNAL_ERROR == -32603

JsonRpcRequest(jsonrpc, id, method, params) ==
    [jsonrpc |-> jsonrpc, id |-> id, method |-> method, params |-> params]

\* A line of input: text that is a JSON document (kept as the document), or text
\* that is none.
Malformed == [kind |-> "malformed"]
Doc(v) == [kind |-> "json", v |-> v]

\* FromObject as it would be without #[serde(default)] on params
FromObjectParamsRequired(o) ==
    IF ~({"jsonrpc", "id", "method", "params"} \subseteq DOMAIN o) THEN Err("missing field")
    ELSE IF o["jsonrpc"].t # "str" \/ o["method"].t # "str" THEN Err("invalid type")
    ELSE Ok(JsonRpcRequest(o["jsonrpc"].s, o["id"], o["method"].s, o["params"]))

\* FromObject as it would be if id were optional and null when absent
FromObjectIdOptional(o) ==
    IF ~({"jsonrpc", "method"} \subseteq DOMAIN o) THEN Err("missing field")
    ELSE IF o["jsonrpc"].t # "str" \/ o["method"].t # "str" THEN Err("invalid type")
    ELSE Ok(JsonRpcRequest(o["jsonrpc"].s, IF "id" \in DOMAIN o THEN o["id"] ELSE JNull,
                           o["method"].s,
                           IF "params" \in DOMAIN o THEN o["params"] ELSE JNull))

\* the derived Deserialize of JsonRpcRequest on a JSON object: jsonrpc, id and
\* method are required, params is Value::default() when absent, other keys are ignored
FromObject(o) ==
    IF ~({"jsonrpc", "id", "method"} \subseteq DOMAIN o) THEN Err("missing field")
    ELSE IF o["jsonrpc"].t # "str" \/ o["method"].t # "str" THEN Err("invalid type")
    ELSE Ok(JsonRpcRequest(o["jsonrpc"].s, o["id"], o["method"].s,
                           IF "params" \in DOMAIN o THEN o["params"] ELSE JNull))

\* the derived Deserialize of JsonRpcRequest on a JSON array: the fields in order
FromArray(a) ==
    IF Len(a) < 3 THEN Err("invalid length")
    ELSE IF a[1].t # "str" \/ a[3].t # "str" THEN Err("invalid type")
    ELSE IF Len(a) > 4 THEN Err("trailing characters")
    ELSE Ok(JsonRpcRequest(a[1].s, a[2], a[3].s, IF Len(a) = 4 THEN a[4] ELSE JNull))

\* serde_json::from_str::<JsonRpcRequest>(&line)
FromStr(line) ==
    IF line.kind # "json" THEN Err("expected value")
    ELSE IF line.v.t = "obj" THEN FromObject(line.v.o)
    ELSE IF line.v.t = "arr" THEN FromArray(line.v.a)
    ELSE Err("invalid type")

JsonRpcError(code, message, data) == [code |-> code, message |-> message, data |-> data]

\* JsonRpcResponse::success
Success(id, result) == [jsonrpc |-> "2.0", id |-> id, result |-> Some(result), error |-> None]

\* JsonRpcResponse::error as it would be if it dropped the request id
ErrorNullId(id, code, message) ==
    [jsonrpc |-> "2.0", id |-> JNull, result |-> None, error |-> Some(JsonRpcError(code, message, None))]

\* JsonRpcResponse::error as it would be if it set a null result beside the error
ErrorWithNullResult(id, code, message) ==
    [jsonrpc |-> "2.0", id |-> id, result |-> Some(JNull), error |-> Some(JsonRpcError(code, message, None))]

\* JsonRpcResponse::error
Error(id, code, message) ==
    [jsonrpc |-> "2.0", id |-> id, result |-> None, error |-> Some(JsonRpcError(code, message, None))]

\* JsonRpcResponse::error_with_data
ErrorWithData(id, code, message, data) ==
    [jsonrpc |-> "2.0", id |-> id, result |-> None, error |-> Some(JsonRpcError(code, message, Some(data)))]

(***************************************************************************)
(* fabric/pattern.rs                                                       *)
(***************************************************************************)
Pattern(name, description, system_prompt, user_prompt, category, tags) ==
    [name |-> name, description |-> description, system_prompt |-> system_prompt,
     user_prompt |-> user_prompt, category |-> category, tags |-> tags]

\* Pattern::tool_name as it would be without the prefix
tool_name_unprefixed(p) == p.name

\* Pattern::tool_name
tool_name(p) == "fabric_" \o p.name

\* Pattern::matches as it would be if the query were not lower-cased
matches_query_as_given(p, query) ==
    LET query_lower == query
    IN \/ Contains(ToLower(p.name), query_lower)
       \/ Contains(ToLower(p.description), query_lower)
       \/ \E k \in 1..Len(p.tags) : Contains(ToLower(p.tags[k]), query_lower)
       \/ IF IsSome(p.category) THEN Contains(ToLower(Unwrap(p.category)), query_lower) ELSE FALSE

\* Pattern::matches
matches(p, query) ==
    LET query_lower == ToLower(query)
    IN \/ Contains(ToLower(p.name), query_lower)
       \/ Contains(ToLower(p.description), query_lower)
       \/ \E k \in 1..Len(p.tags) : Contains(ToLower(p.tags[k]), query_lower)
       \/ IF IsSome(p.category) THEN Contains(ToLower(Unwrap(p.category)), query_lower) ELSE FALSE

(***************************************************************************)
(* fabric/loader.rs                                                        *)
(***************************************************************************)
IsMarkerLine(line) == Contains(line, "# IDENTITY") \/ Contains(line, "# PURPOSE")

\* NextDescription as it would be if it returned the line as it stands
RECURSIVE NextDescriptionUntrimmed(_, _)
NextDescriptionUntrimmed(lines, j) ==
    IF j > Len(lines) THEN None
    ELSE LET desc == Trim(lines[j])
         IN IF desc # "" /\ ~StartsWith(desc, "#") THEN Some(lines[j])
            ELSE NextDescriptionUntrimmed(lines, j + 1)

\* the inner loop of extract_description: the first line at or after j that is,
\* trimmed, neither empty nor a header
RECURSIVE NextDescription(_, _)
NextDescription(lines, j) ==
    IF j > Len(lines) THEN None
    ELSE LET desc == Trim(lines[j])
         IN IF desc # "" /\ ~StartsWith(desc, "#") THEN Some(desc)
            ELSE NextDescription(lines, j + 1)

\* the outer loop of extract_description, from line i on
RECURSIVE MarkerDescription(_, _)
MarkerDescription(lines, i) ==
    IF i > Len(lines) THEN None
    ELSE IF IsMarkerLine(lines[i]) /\ IsSome(NextDescription(lines, i + 1))
         THEN NextDescription(lines, i + 1)
    ELSE MarkerDescription(lines, i + 1)

\* skip_while(|l| l.trim().is_empty() || l.starts_with('#'))
RECURSIVE SkipHeading(_)
SkipHeading(lines) ==
    IF Len(lines) > 0 /\ (Trim(lines[1]) = "" \/ StartsWith(lines[1], "#"))
    THEN SkipHeading(Tail(lines))
    ELSE lines

\* take_while(|l| !l.trim().is_empty())
RECURSIVE TakeParagraph(_)
TakeParagraph(lines) ==
    IF Len(lines) > 0 /\ Trim(lines[1]) # ""
    THEN <<lines[1]>> \o TakeParagraph(Tail(lines))
    ELSE <<>>

DESCRIPTION_MAX_CHARS == 200

FallbackDescription(content) ==
    TakeChars(Join(TakeParagraph(SkipHeading(Lines(content))), " "), DESCRIPTION_MAX_CHARS)

extract_description(content) ==
    LET found == MarkerDescription(Lines(content), 1)
    IN IF IsSome(found) THEN Unwrap(found) ELSE FallbackDescription(content)

ContainsAny(s, subs) == \E x \in subs : Contains(s, x)

\* extract_metadata as it would be if every matching category rule assigned the category
extract_metadata_last_rule_wins(content) ==
    LET lower == ToLower(content)
        sec == ContainsAny(lower, {"security", "threat", "vulnerability"})
        wri == ContainsAny(lower, {"writing", "essay", "article"})
        cod == ContainsAny(lower, {"code", "programming", "software"})
        ana == ContainsAny(lower, {"analyze", "analysis", "extract"})
        sum == ContainsAny(lower, {"summarize", "summary"})
        category == IF cod THEN Some("coding")
                    ELSE IF wri THEN Some("writing")
                    ELSE IF sec THEN Some("security")
                    ELSE None
        tags == (IF sec THEN <<"security">> ELSE <<>>)
                \o (IF wri THEN <<"writing">> ELSE <<>>)
                \o (IF cod THEN <<"coding">> ELSE <<>>)
                \o (IF ana THEN <<"analysis">> ELSE <<>>)
                \o (IF sum THEN <<"summarization">> ELSE <<>>)
    IN [category |-> category, tags |-> Dedup(SortStrings(tags))]

\* extract_metadata as it would be without tags.sort()
extract_metadata_unsorted(content) ==
    LET lower == ToLower(content)
        sec == ContainsAny(lower, {"security", "threat", "vulnerability"})
        wri == ContainsAny(lower, {"writing", "essay", "article"})
        cod == ContainsAny(lower, {"code", "programming", "software"})
        ana == ContainsAny(lower, {"analyze", "analysis", "extract"})
        sum == ContainsAny(lower, {"summarize", "summary"})
        category == IF sec THEN Some("security")
                    ELSE IF wri THEN Some("writing")
                    ELSE IF cod THEN Some("coding")
                    ELSE None
        tags == (IF sec THEN <<"security">> ELSE <<>>)
                \o (IF wri THEN <<"writing">> ELSE <<>>)
                \o (IF cod THEN <<"coding">> ELSE <<>>)
                \o (IF ana THEN <<"analysis">> ELSE <<>>)
                \o (IF sum THEN <<"summarization">> ELSE <<>>)
    IN [category |-> category, tags |-> Dedup(tags)]

extract_metadata(content) ==
    LET lower == ToLower(content)
        sec == ContainsAny(lower, {"security", "threat", "vulnerability"})
        wri == ContainsAny(lower, {"writing", "essay", "article"})
        cod == ContainsAny(lower, {"code", "programming", "software"})
        ana == ContainsAny(lower, {"analyze", "analysis", "extract"})
        sum == ContainsAny(lower, {"summarize", "summary"})
        category == IF sec THEN Some("security")
                    ELSE IF wri THEN Some("writing")
                    ELSE IF cod THEN Some("coding")
                    ELSE None
        tags == (IF sec THEN <<"security">> ELSE <<>>)
                \o (IF wri THEN <<"writing">> ELSE <<>>)
                \o (IF cod THEN <<"coding">> ELSE <<>>)
                \o (IF ana THEN <<"analysis">> ELSE <<>>)
                \o (IF sum THEN <<"summarization">> ELSE <<>>)
    IN [category |-> category, tags |-> Dedup(SortStrings(tags))]

\* A directory entry of the patterns root as load_all sees it:
\*   name   Some(file name) or None when the name is not valid UTF-8
\*   kind   "dir", "file", "typeerr" (file_type fails), "enumerr" (next_entry fails)
\*   system Some(contents of system.md) or None when it cannot be read
\*   user   Some(contents of user.md) or None when it cannot be read
\*   meta   whether fs::metadata and modified() succeed
DirEntry(name, kind, system, user, meta) ==
    [name |-> name, kind |-> kind, system |-> system, user |-> user, meta |-> meta]

\* load_pattern as it would be if an unreadable system.md were read as empty
load_pattern_system_or_default(e) ==
    IF IsNone(e.name) THEN Err("InvalidPattern")
    ELSE IF ~e.meta THEN Err("Io")
    ELSE LET system_prompt == IF IsSome(e.system) THEN Unwrap(e.system) ELSE ""
             md == extract_metadata(system_prompt)
         IN Ok(Pattern(Unwrap(e.name), extract_description(system_prompt),
                       system_prompt, e.user, md.category, md.tags))

\* load_pattern as it would be if the category extracted were not stored
load_pattern_category_dropped(e) ==
    IF IsNone(e.name) THEN Err("InvalidPattern")
    ELSE IF IsNone(e.system) THEN Err("InvalidPattern")
    ELSE IF ~e.meta THEN Err("Io")
    ELSE LET md == extract_metadata(Unwrap(e.system))
         IN Ok(Pattern(Unwrap(e.name), extract_description(Unwrap(e.system)),
                       Unwrap(e.system), e.user, None, md.tags))

\* PatternLoader::load_pattern
load_pattern(e) ==
    IF IsNone(e.name) THEN Err("InvalidPattern")
    ELSE IF IsNone(e.system) THEN Err("InvalidPattern")
    ELSE IF ~e.meta THEN Err("Io")
    ELSE LET md == extract_metadata(Unwrap(e.system))
         IN Ok(Pattern(Unwrap(e.name), extract_description(Unwrap(e.system)),
                       Unwrap(e.system), e.user, md.category, md.tags))

\* LoadEntries as it would be if a failing load_pattern were propagated with `?`
RECURSIVE LoadEntriesAborting(_, _, _)
LoadEntriesAborting(entries, i, patterns) ==
    IF i > Len(entries) THEN Ok(patterns)
    ELSE LET e == entries[i]
         IN IF e.kind = "enumerr" THEN Err("Io")
            ELSE IF e.kind = "typeerr" THEN Err("Io")
            ELSE IF e.kind = "dir"
                 THEN LET r == load_pattern(e)
                      IN IF r.ok THEN LoadEntriesAborting(entries, i + 1, Append(patterns, r.v))
                         ELSE Err(r.e)
            ELSE LoadEntriesAborting(entries, i + 1, patterns)

\* LoadEntries as it would be if only an invalid pattern were skipped and an I/O
\* error of load_pattern were propagated
RECURSIVE LoadEntriesIoAborting(_, _, _)
LoadEntriesIoAborting(entries, i, patterns) ==
    IF i > Len(entries) THEN Ok(patterns)
    ELSE LET e == entries[i]
         IN IF e.kind = "enumerr" THEN Err("Io")
            ELSE IF e.kind = "typeerr" THEN Err("Io")
            ELSE IF e.kind = "dir"
                 THEN LET r == load_pattern(e)
                      IN IF r.ok THEN LoadEntriesIoAborting(entries, i + 1, Append(patterns, r.v))
                         ELSE IF r.e = "Io" THEN Err(r.e)
                         ELSE LoadEntriesIoAborting(entries, i + 1, patterns)
            ELSE LoadEntriesIoAborting(entries, i + 1, patterns)

\* the while loop of load_all from entry i on, patterns being the batch so far
RECURSIVE LoadEntries(_, _, _)
LoadEntries(entries, i, patterns) ==
    IF i > Len(entries) THEN Ok(patterns)
    ELSE LET e == entries[i]
         IN IF e.kind = "enumerr" THEN Err("Io")
            ELSE IF e.kind = "typeerr" THEN Err("Io")
            ELSE IF e.kind = "dir"
                 THEN LET r == load_pattern(e)
                      IN LoadEntries(entries, i + 1, IF r.ok THEN Append(patterns, r.v) ELSE patterns)
            ELSE LoadEntries(entries, i + 1, patterns)

\* PatternLoader::load_all over the directory state d = [root, entries]
load_all(d) == IF ~d.root THEN Err("Io") ELSE LoadEntries(d.entries, 1, <<>>)

(***************************************************************************)
(* tokio::sync::RwLock guarding McpServer::patterns.  The lock is fair:    *)
(* requests that cannot be served at once wait in a first-in first-out     *)
(* queue, and a release serves the queue from its head.                    *)
(*   r  the tasks holding a read guard                                     *)
(*   w  the tasks holding the write guard (at most one)                    *)
(*   q  the waiting requests, <<task, "r" or "w">>, oldest first           *)
(***************************************************************************)
Unlocked == [r |-> {}, w |-> {}, q |-> <<>>]

\* a read guard can be handed out: no writer holds the slot
ReadAvailable(l) == l.w = {}

\* WriteAvailable as a lock that forgets the readers would have it
WriteAvailableDespiteReaders(l) == l.w = {}

\* the write guard can be handed out: nobody holds the slot
WriteAvailable(l) == l.w = {} /\ l.r = {}

\* hand the slot to the waiting requests, from the head of the queue on
RECURSIVE Grant(_)
Grant(l) ==
    IF Len(l.q) = 0 THEN l
    ELSE LET t == l.q[1][1]
             k == l.q[1][2]
         IN IF k = "r" /\ ReadAvailable(l) THEN Grant([l EXCEPT !.r = @ \cup {t}, !.q = Tail(@)])
            ELSE IF k = "w" /\ WriteAvailable(l) THEN [l EXCEPT !.w = {t}, !.q = Tail(@)]
            ELSE l

\* RwLock::read: served at once unless a writer holds the slot or a request waits
\* RwLock::read as it would be if read access were exclusive
ReadRequestExclusive(l, t) ==
    IF WriteAvailable(l) /\ Len(l.q) = 0 THEN [l EXCEPT !.r = @ \cup {t}]
    ELSE [l EXCEPT !.q = Append(@, <<t, "r">>)]

\* RwLock::read
ReadRequest(l, t) ==
    IF ReadAvailable(l) /\ Len(l.q) = 0 THEN [l EXCEPT !.r = @ \cup {t}]
    ELSE [l EXCEPT !.q = Append(@, <<t, "r">>)]

\* RwLock::write
WriteRequest(l, t) ==
    IF WriteAvailable(l) /\ Len(l.q) = 0 THEN [l EXCEPT !.w = {t}]
    ELSE [l EXCEPT !.q = Append(@, <<t, "w">>)]

\* drop of a read guard
ReadRelease(l, t) == Grant([l EXCEPT !.r = @ \ {t}])

\* drop of the write guard
WriteRelease(l, t) == Grant([l EXCEPT !.w = @ \ {t}])

(***************************************************************************)
(* mcp/server.rs: the pure parts of the handlers                           *)
(***************************************************************************)
ServerName == "fabric-atelier"
ServerVersion == "0.1.0"

\* Route as it would be if method names were matched ignoring case
RouteIgnoringCase(method) ==
    IF ToLower(method) = "initialize" THEN "handle_initialize"
    ELSE IF ToLower(method) = "tools/list" THEN "handle_tools_list"
    ELSE IF ToLower(method) = "tools/call" THEN "handle_tools_call"
    ELSE "method_not_found"

\* the match of handle_request: the handler a method name selects
Route(method) ==
    IF method = "initialize" THEN "handle_initialize"
    ELSE IF method = "tools/list" THEN "handle_tools_list"
    ELSE IF method = "tools/call" THEN "handle_tools_call"
    ELSE "method_not_found"

\* McpServer::handle_initialize
handle_initialize(id) ==
    Success(id, JObj([protocolVersion |-> JStr("2024-11-05"),
                      capabilities |-> JObj([tools |-> EmptyObj]),
                      serverInfo |-> JObj([name |-> JStr(ServerName),
                                           version |-> JStr(ServerVersion)])]))

\* McpServer::method_not_found
method_not_found(id) == Error(id, METHOD_NOT_FOUND, "Method not found")

InputSchema ==
    JObj([type |-> JStr("object"),
          properties |-> JObj([content |->
              JObj([type |-> JStr("string"),
                    description |-> JStr("The content to process with this pattern")])]),
          required |-> JArr(<<JStr("content")>>)])

\* the closure of handle_tools_list: one pattern's tool descriptor
ToolDescriptor(pattern) ==
    JObj([name |-> JStr(tool_name(pattern)),
          description |-> JStr(pattern.description),
          inputSchema |-> InputSchema])

\* the end of handle_tools_list
ToolsListResponse(id, tools) == Success(id, JObj([tools |-> JArr(tools)]))

\* params.get("name").and_then(|v| v.as_str())
ParamToolName(params) == AndThen(Get(params, "name"), AsStr)

ArgContent(args) == Get(args, "content")

\* params.get("arguments").and_then(|args| args.get("content")).and_then(|c| c.as_str())
ParamContent(params) == AndThen(AndThen(Get(params, "arguments"), ArgContent), AsStr)

\* ValidateToolsCall as it would be if missing arguments were reported as invalid params
ValidateToolsCallInvalidParams(id, params) ==
    LET tn == ParamToolName(params)
    IN IF IsNone(tn) THEN Err(Error(id, INVALID_PARAMS, "Missing tool name"))
       ELSE LET pn == StripPrefix(Unwrap(tn), "fabric_")
            IN IF IsNone(pn)
               THEN Err(Error(id, INTERNAL_ERROR, "Invalid tool name: " \o Unwrap(tn)))
               ELSE LET c == ParamContent(params)
                    IN IF IsNone(c)
                       THEN Err(Error(id, INVALID_PARAMS, "Missing content argument"))
                       ELSE Ok([pattern_name |-> Unwrap(pn), content |-> Unwrap(c)])

\* ValidateToolsCall as it would be if the content were checked before the prefix
ValidateToolsCallContentFirst(id, params) ==
    LET tn == ParamToolName(params)
    IN IF IsNone(tn) THEN Err(Error(id, INTERNAL_ERROR, "Missing tool name"))
       ELSE LET c == ParamContent(params)
            IN IF IsNone(c)
               THEN Err(Error(id, INTERNAL_ERROR, "Missing content argument"))
               ELSE LET pn == StripPrefix(Unwrap(tn), "fabric_")
                    IN IF IsNone(pn)
                       THEN Err(Error(id, INTERNAL_ERROR, "Invalid tool name: " \o Unwrap(tn)))
                       ELSE Ok([pattern_name |-> Unwrap(pn), content |-> Unwrap(c)])

\* handle_tools_call up to the catalog lookup: Err(the error response), or
\* Ok(the pattern name and the content)
ValidateToolsCall(id, params) ==
    LET tn == ParamToolName(params)
    IN IF IsNone(tn) THEN Err(Error(id, INTERNAL_ERROR, "Missing tool name"))
       ELSE LET pn == StripPrefix(Unwrap(tn), "fabric_")
            IN IF IsNone(pn)
               THEN Err(Error(id, INTERNAL_ERROR, "Invalid tool name: " \o Unwrap(tn)))
               ELSE LET c == ParamContent(params)
                    IN IF IsNone(c)
                       THEN Err(Error(id, INTERNAL_ERROR, "Missing content argument"))
                       ELSE Ok([pattern_name |-> Unwrap(pn), content |-> Unwrap(c)])

\* PromptText as it would be if the user prompt were never included
PromptTextWithoutUser(pattern, content) ==
    "# System Prompt\n\n" \o pattern.system_prompt \o "\n\n# Content to Process\n\n" \o content

\* the prompt text handle_tools_call composes
PromptText(pattern, content) ==
    IF IsSome(pattern.user_prompt)
    THEN "# System Prompt\n\n" \o pattern.system_prompt
         \o "\n\n# User Prompt Template\n\n" \o Unwrap(pattern.user_prompt)
         \o "\n\n# Content to Process\n\n" \o content
    ELSE "# System Prompt\n\n" \o pattern.system_prompt
         \o "\n\n# Content to Process\n\n" \o content

\* the success response of handle_tools_call
ToolsCallResponse(id, pattern, content) ==
    Success(id, JObj([content |-> JArr(<<JObj([type |-> JStr("text"),
                                               text |-> JStr(PromptText(pattern, content))])>>)]))

\* NameMatches as it would be if names were compared ignoring case
NameMatchesIgnoringCase(pattern, pattern_name) == ToLower(pattern.name) = ToLower(pattern_name)

\* the predicate of find() in handle_tools_call: p.name == pattern_name
NameMatches(pattern, pattern_name) == pattern.name = pattern_name

\* the response of handle_tools_call when the lookup finds nothing
PatternNotFoundResponse(id, pattern_name) ==
    Error(id, INTERNAL_ERROR, "Pattern not found: " \o pattern_name)

(***************************************************************************)
(* The inputs: the states load_all may find the patterns root in, and the   *)
(* requests.                                                               *)
(***************************************************************************)
SysSummarize == "# IDENTITY\n\nYou summarize text.\n\n# STEPS\n"
SysReview == "You review code for security issues.\n"
UserReview == "Review this:"

DirA == DirEntry(Some("a"), "dir", Some(SysSummarize), None, TRUE)
DirB == DirEntry(Some("b"), "dir", Some(SysReview), Some(UserReview), TRUE)
DirFabricA == DirEntry(Some("fabric_a"), "dir", Some(SysSummarize), Some(""), TRUE)
DirANoSystem == DirEntry(Some("a"), "dir", None, Some(UserReview), TRUE)
FileReadme == DirEntry(Some("README.md"), "file", None, None, TRUE)
\* a subdirectory whose name is not valid UTF-8: file_name().to_str() is None
DirNotUtf8 == DirEntry(None, "dir", Some(SysSummarize), None, TRUE)

\* a subdirectory whose system.md is an empty file
DirEmptySystem == DirEntry(Some("e"), "dir", Some(""), None, TRUE)

\* an entry whose file_type() fails; a subdirectory whose metadata cannot be read
EntryTypeErr == DirEntry(Some("t"), "typeerr", None, None, TRUE)
DirNoMeta == DirEntry(Some("m"), "dir", Some(SysReview), None, FALSE)

\* the states of the user's location
UserDiskStates ==
    { [root |-> FALSE, entries |-> <<>>],
      [root |-> TRUE, entries |-> <<DirA, DirB>>],
      [root |-> TRUE, entries |-> <<DirEmptySystem, DirB>>],
      [root |-> TRUE, entries |-> <<EntryTypeErr, DirB>>],
      [root |-> TRUE, entries |-> <<DirNoMeta, DirB>>] }

DiskStates ==
    { [root |-> TRUE, entries |-> <<DirA, DirB>>],
      [root |-> TRUE, entries |-> <<DirB, FileReadme, DirFabricA>>],
      [root |-> TRUE, entries |-> <<DirANoSystem, DirB>>],
      [root |-> TRUE, entries |-> <<DirNotUtf8, DirANoSystem, DirB>>],
      [root |-> TRUE, entries |-> <<>>],
      [root |-> FALSE, entries |-> <<>>] }

Ids == {JNull, JNum(1), JStr("a")}

Content == JObj([content |-> JStr("hello")])

\* the params of tools/call requests
CallParams ==
    { JNull, EmptyObj, JArr(<<JStr("fabric_a")>>),
      JObj([arguments |-> Content]),
      JObj([name |-> JNum(1), arguments |-> Content]),
      JObj([name |-> JNull, arguments |-> Content]),
      JObj([name |-> JStr("not_prefixed")]),
      JObj([name |-> JStr("not_prefixed"), arguments |-> Content]),
      JObj([name |-> JStr("Fabric_a"), arguments |-> Content]),
      JObj([name |-> JStr("fabric"), arguments |-> Content]),
      JObj([name |-> JStr("a"), arguments |-> Content]),
      JObj([name |-> JStr("fabric_a")]),
      JObj([name |-> JStr("fabric_a"), arguments |-> JNull]),
      JObj([name |-> JStr("fabric_a"), arguments |-> JStr("hello")]),
      JObj([name |-> JStr("fabric_a"), arguments |-> EmptyObj]),
      JObj([name |-> JStr("fabric_a"), arguments |-> JObj([content |-> JNum(1)])]),
      JObj([name |-> JStr("fabric_a"), arguments |-> JObj([content |-> JNull])]),
      JObj([name |-> JStr("fabric_zz"), arguments |-> EmptyObj]),
      JObj([name |-> JStr("fabric_a"), arguments |-> Content]),
      JObj([name |-> JStr("fabric_b"), arguments |-> Content]),
      JObj([name |-> JStr("fabric_b"), arguments |-> JObj([content |-> JStr("")])]),
      JObj([name |-> JStr("fabric_fabric_a"), arguments |-> Content]),
      JObj([name |-> JStr("fabric_"), arguments |-> Content]),
      JObj([name |-> JStr("fabric_A"), arguments |-> Content]),
      JObj([name |-> JStr("fabric_zz"), arguments |-> Content]) }

\* the params of the other requests
OtherParams == {JNull, EmptyObj, JObj([name |-> JStr("fabric_a"), arguments |-> Content])}

UnknownMethods == {"unknown/method", "tools/List", "initialize ", ""}

Methods == {"initialize", "tools/list", "tools/call"} \cup UnknownMethods

ParamsOf(m) == IF m = "tools/call" THEN CallParams ELSE OtherParams

\* the line of a request, params given
RequestLine(id, m, ps) ==
    Doc(JObj([jsonrpc |-> JStr("2.0"), id |-> id, method |-> JStr(m), params |-> ps]))

\* the line of a request, params omitted
BareRequestLine(id, m) == Doc(JObj([jsonrpc |-> JStr("2.0"), id |-> id, method |-> JStr(m)]))

\* the lines the transport loop may read (none of them blank)
InputLines ==
    UNION {{RequestLine(id, m, ps) : id \in Ids, ps \in ParamsOf(m)} : m \in Methods}
    \cup {BareRequestLine(id, m) : id \in Ids, m \in Methods}
    \cup { Malformed, Doc(JNull), Doc(JNum(1)), Doc(JStr("initialize")), Doc(EmptyObj),
           Doc(JArr(<<>>)),
           Doc(JObj([jsonrpc |-> JStr("2.0"), id |-> JNum(1)])),
           Doc(JObj([jsonrpc |-> JStr("2.0"), method |-> JStr("initialize")])),
           Doc(JObj([id |-> JNum(1), method |-> JStr("tools/list")])),
           Doc(JObj([jsonrpc |-> JStr("2.0"), id |-> JNum(1), method |-> JNum(1)])),
           Doc(JObj([jsonrpc |-> JNum(2), id |-> JNum(1), method |-> JStr("initialize")])),
           Doc(JObj([jsonrpc |-> JStr("1.0"), id |-> JNum(1), method |-> JStr("tools/list")])),
           Doc(JArr(<<JStr("2.0"), JNum(1), JStr("initialize")>>)),
           Doc(JArr(<<JStr("2.0"), JNum(1)>>)) }

\* the lines that decode into a request, and the requests they decode into
DecodableLines == {l \in InputLines : FromStr(l).ok}
DecodedRequests == {FromStr(l).v : l \in DecodableLines}
\* the lines that do not
UndecodableLines == InputLines \ DecodableLines

\* the requests handed to handle_request directly in the concurrent specification
ConcRequests ==
    {JsonRpcRequest("2.0", JNum(1), "tools/call", ps) :
        ps \in {JObj([name |-> JStr("fabric_b"), arguments |-> Content]),
                JObj([name |-> JStr("fabric_b")])}}
    \cup {JsonRpcRequest("2.0", JNum(1), m, JNull) :
            m \in {"initialize", "tools/list", "unknown/method"}}

(***************************************************************************)
(* The state.                                                              *)
(***************************************************************************)
\* the tasks calling handle_request, and those calling reload_patterns
Handlers == 1..NumHandlers
Reloaders == (NumHandlers + 1)..(NumHandlers + NumReloaders)
\* the tasks calling reload_patterns at overlapping times
Overlapping == (NumHandlers + 1)..(NumHandlers + NumOverlapping)
ReloadTasks == Reloaders \cup Overlapping
\* run_stdio_server is the one caller of handle_request in the server binary
TransportTasks == {1}

VARIABLES
    catalog,    \* McpServer::patterns: the Vec<Pattern> in the slot
    lock,       \* the RwLock around it
    hpc,        \* handle_request: "idle", "reading" (read requested or held), "done"
    req,        \* handle_request: the request, None when idle
    resp,       \* handle_request: the response returned, None until done
    idx,        \* handle_request: how many patterns the iterator has yielded
    tools,      \* handle_tools_list: the tool descriptors collected so far
    rpc,        \* reload_patterns: "idle", "scanned", "locking", "returned"
    batch,      \* reload_patterns: the patterns load_all returned
    rres,       \* reload_patterns: the Result returned, None until it returns
    seen,       \* history: the catalogs the slot held while the request waited for or held read access
    snap,       \* history: the catalog in the slot when the read guard was handed out
    locked,     \* history: whether the request asked for catalog access
    scans       \* history: the order of the scans of the reloads: pending (scanned, not yet swapped,
                \*   oldest first), overtaken (pending while a later scan was swapped in), stale
                \*   (the last swap was by an overtaken reload)

VARIABLES
    stdin,      \* run_stdio_server: the lines the input stream still holds
    stdout,     \* run_stdio_server: what was written to the output stream, in order
    flushed,    \* run_stdio_server: how much of stdout has been flushed
    tpc,        \* run_stdio_server: "off" (not started), "read", "dispatch", "write_newline", "flush", "returned"
    linebuf,    \* run_stdio_server (line): the non-blank line of this iteration, None between iterations
    brk,        \* run_stdio_server: the break that left the loop, None while it runs
    ret,        \* run_stdio_server: the Result returned, None until it returns
    taken       \* history: the lines read so far, in order

VARIABLES
    fs,         \* the environment: the candidate locations (sub, user) and HOME
    spc,        \* McpServer::new: "off" (not modelled), "new", "resolved", "up", "failed"
    loader,     \* PatternLoader::patterns_dir, None until resolved
    sres        \* McpServer::new: the Result returned, None until it returns

VARIABLES
    called,     \* a function called on its own: "off" (none), "matches", "extract_metadata", "extract_description", "load_pattern", "round_trip"
    called_arg, \* its argument
    called_wire,\* serde_json::to_string of the argument, None until serialized
    called_ret  \* its return value, None until it returns

stdioVars == <<stdin, stdout, flushed, tpc, linebuf, brk, ret, taken>>
startupVars == <<fs, spc, loader, sres>>
callVars == <<called, called_arg, called_wire, called_ret>>
serverVars == <<catalog, lock, hpc, req, resp, idx, tools, rpc, batch, rres, seen, snap, locked, scans, startupVars, callVars>>
envVars == <<stdioVars, startupVars, callVars>>
vars == <<serverVars, stdioVars>>
handlerVars == <<hpc, req, resp, idx, tools, locked>>
reloadVars == <<rpc, batch, rres>>

\* self.pattern_loader.load_all() on directory state d (tabulated over the directory states)
LoadResult == [d \in DiskStates \cup UserDiskStates |-> load_all(d)]
Load(d) == LoadResult[d]

\* no reload has scanned
NoScans == [pending |-> <<>>, overtaken |-> {}, stale |-> FALSE]

\* run_stdio_server has not been called
StdioOff ==
    /\ stdin = <<>> /\ stdout = <<>> /\ flushed = 0
    /\ tpc = "off" /\ linebuf = None /\ brk = None /\ ret = None /\ taken = <<>>

\* no function is called on its own
CallOff == called = "off" /\ called_arg = None /\ called_wire = None /\ called_ret = None

\* the steps of McpServer::new are not modelled: the server is there
StartupOff ==
    /\ fs = [sub |-> [root |-> FALSE, entries |-> <<>>], home |-> None,
              user |-> [root |-> FALSE, entries |-> <<>>]]
    /\ spc = "off" /\ loader = None /\ sres = None

\* McpServer::new: the catalog is what load_all returns at construction
McpServerNew ==
    /\ StartupOff
    /\ \E d \in DiskStates : Load(d).ok /\ catalog = Load(d).v
    /\ lock = Unlocked
    /\ hpc = [h \in Handlers |-> "idle"]
    /\ req = [h \in Handlers |-> None]
    /\ resp = [h \in Handlers |-> None]
    /\ idx = [h \in Handlers |-> 0]
    /\ tools = [h \in Handlers |-> <<>>]
    /\ rpc = [r \in ReloadTasks |-> "idle"]
    /\ batch = [r \in ReloadTasks |-> <<>>]
    /\ rres = [r \in ReloadTasks |-> None]
    /\ scans = NoScans
    /\ seen = [h \in Handlers |-> {}]
    /\ snap = [h \in Handlers |-> None]
    /\ locked = [h \in Handlers |-> FALSE]

\* a constructed server whose handle_request and reload_patterns are called directly
Init == McpServerNew /\ StdioOff /\ CallOff

\* the history variables follow the step
History ==
    /\ seen' = [h \in Handlers |->
                  IF hpc'[h] = "idle" THEN {}
                  ELSE IF hpc[h] = "reading" \/ hpc'[h] = "reading"
                       THEN seen[h] \cup {catalog, catalog'}
                  ELSE seen[h]]
    /\ snap' = [h \in Handlers |->
                  IF hpc'[h] = "idle" THEN None
                  ELSE IF h \in lock'.r /\ h \notin lock.r THEN Some(catalog')
                  ELSE snap[h]]
    /\ scans' =
         LET scanning == {r \in ReloadTasks : rpc[r] = "idle" /\ rpc'[r] = "scanned"}
             swapping == {r \in ReloadTasks : rpc[r] = "locking" /\ rpc'[r] = "returned"}
         IN IF scanning # {}
            THEN [scans EXCEPT !.pending = Append(@, CHOOSE r \in scanning : TRUE)]
            ELSE IF swapping # {}
            THEN LET r == CHOOSE q \in swapping : TRUE
                     k == CHOOSE j \in 1..Len(scans.pending) : scans.pending[j] = r
                 IN [pending |-> SubSeq(scans.pending, 1, k - 1)
                                   \o SubSeq(scans.pending, k + 1, Len(scans.pending)),
                     overtaken |-> (scans.overtaken \ {r})
                                     \cup {scans.pending[j] : j \in 1..(k - 1)},
                     stale |-> r \in scans.overtaken]
            ELSE scans

\* the handler returns response rs
Respond(h, rs) ==
    /\ hpc' = [hpc EXCEPT ![h] = "done"]
    /\ resp' = [resp EXCEPT ![h] = Some(rs)]

\* the handler asks for read access: self.patterns.read().await
BeginRead(h, rq) ==
    /\ hpc' = [hpc EXCEPT ![h] = "reading"]
    /\ req' = [req EXCEPT ![h] = Some(rq)]
    /\ lock' = ReadRequest(lock, h)
    /\ locked' = [locked EXCEPT ![h] = TRUE]
    /\ UNCHANGED <<resp, idx, tools>>

\* the handler answers without catalog access
Answer(h, rq, rs) ==
    /\ req' = [req EXCEPT ![h] = Some(rq)]
    /\ Respond(h, rs)
    /\ UNCHANGED <<lock, idx, tools, locked>>

(***************************************************************************)
(* McpServer::handle_request and the handlers it dispatches to.            *)
(***************************************************************************)
\* Initialize as it would be if handle_initialize took a read guard for its answer
InitializeReadingCatalog(h, rq) ==
    /\ hpc[h] = "idle"
    /\ Route(rq.method) = "handle_initialize"
    /\ ReadAvailable(lock) /\ Len(lock.q) = 0
    /\ req' = [req EXCEPT ![h] = Some(rq)]
    /\ Respond(h, handle_initialize(rq.id))
    /\ locked' = [locked EXCEPT ![h] = TRUE]
    /\ UNCHANGED <<lock, idx, tools, catalog, reloadVars>>
    /\ History

Initialize(h, rq) ==
    /\ hpc[h] = "idle"
    /\ Route(rq.method) = "handle_initialize"
    /\ Answer(h, rq, handle_initialize(rq.id))
    /\ UNCHANGED <<catalog, reloadVars>>
    /\ History

MethodNotFound(h, rq) ==
    /\ hpc[h] = "idle"
    /\ Route(rq.method) = "method_not_found"
    /\ Answer(h, rq, method_not_found(rq.id))
    /\ UNCHANGED <<catalog, reloadVars>>
    /\ History

\* handle_tools_list up to self.patterns.read().await
ToolsListBegin(h, rq) ==
    /\ hpc[h] = "idle"
    /\ Route(rq.method) = "handle_tools_list"
    /\ BeginRead(h, rq)
    /\ UNCHANGED <<catalog, reloadVars>>
    /\ History

\* handle_tools_list: the iterator yields the next pattern
ToolsListNext(h) ==
    /\ hpc[h] = "reading"
    /\ Route(Unwrap(req[h]).method) = "handle_tools_list"
    /\ h \in lock.r
    /\ idx[h] < Len(catalog)
    /\ tools' = [tools EXCEPT ![h] = Append(@, ToolDescriptor(catalog[idx[h] + 1]))]
    /\ idx' = [idx EXCEPT ![h] = @ + 1]
    /\ UNCHANGED <<catalog, lock, hpc, req, resp, locked, reloadVars>>
    /\ History

\* handle_tools_list: the iterator is exhausted; respond and drop the guard
ToolsListEnd(h) ==
    /\ hpc[h] = "reading"
    /\ Route(Unwrap(req[h]).method) = "handle_tools_list"
    /\ h \in lock.r
    /\ idx[h] >= Len(catalog)
    /\ Respond(h, ToolsListResponse(Unwrap(req[h]).id, tools[h]))
    /\ lock' = ReadRelease(lock, h)
    /\ UNCHANGED <<catalog, req, idx, tools, locked, reloadVars>>
    /\ History

\* ToolsCallInvalid as it would be if the read guard were taken before the checks
ToolsCallInvalidUnderGuard(h, rq) ==
    /\ hpc[h] = "idle"
    /\ Route(rq.method) = "handle_tools_call"
    /\ ~ValidateToolsCall(rq.id, rq.params).ok
    /\ ReadAvailable(lock) /\ Len(lock.q) = 0
    /\ req' = [req EXCEPT ![h] = Some(rq)]
    /\ Respond(h, ValidateToolsCall(rq.id, rq.params).e)
    /\ locked' = [locked EXCEPT ![h] = TRUE]
    /\ UNCHANGED <<lock, idx, tools, catalog, reloadVars>>
    /\ History

\* handle_tools_call: a validation failure is answered at once
ToolsCallInvalid(h, rq) ==
    /\ hpc[h] = "idle"
    /\ Route(rq.method) = "handle_tools_call"
    /\ ~ValidateToolsCall(rq.id, rq.params).ok
    /\ Answer(h, rq, ValidateToolsCall(rq.id, rq.params).e)
    /\ UNCHANGED <<catalog, reloadVars>>
    /\ History

\* handle_tools_call up to self.patterns.read().await
ToolsCallBegin(h, rq) ==
    /\ hpc[h] = "idle"
    /\ Route(rq.method) = "handle_tools_call"
    /\ ValidateToolsCall(rq.id, rq.params).ok
    /\ BeginRead(h, rq)
    /\ UNCHANGED <<catalog, reloadVars>>
    /\ History

\* the pattern name and content of the tools/call in flight
CallArgs(h) == ValidateToolsCall(Unwrap(req[h]).id, Unwrap(req[h]).params).v

\* handle_tools_call: find() passes a pattern of another name
ToolsCallNext(h) ==
    /\ hpc[h] = "reading"
    /\ Route(Unwrap(req[h]).method) = "handle_tools_call"
    /\ h \in lock.r
    /\ idx[h] < Len(catalog)
    /\ ~NameMatches(catalog[idx[h] + 1], CallArgs(h).pattern_name)
    /\ idx' = [idx EXCEPT ![h] = @ + 1]
    /\ UNCHANGED <<catalog, lock, hpc, req, resp, tools, locked, reloadVars>>
    /\ History

\* handle_tools_call: find() yields the pattern; respond and drop the guard
ToolsCallFound(h) ==
    /\ hpc[h] = "reading"
    /\ Route(Unwrap(req[h]).method) = "handle_tools_call"
    /\ h \in lock.r
    /\ idx[h] < Len(catalog)
    /\ NameMatches(catalog[idx[h] + 1], CallArgs(h).pattern_name)
    /\ Respond(h, ToolsCallResponse(Unwrap(req[h]).id, catalog[idx[h] + 1], CallArgs(h).content))
    /\ lock' = ReadRelease(lock, h)
    /\ UNCHANGED <<catalog, req, idx, tools, locked, reloadVars>>
    /\ History

\* ToolsCallNotFound as it would be if the error path returned with the guard alive
ToolsCallNotFoundKeepsGuard(h) ==
    /\ hpc[h] = "reading"
    /\ Route(Unwrap(req[h]).method) = "handle_tools_call"
    /\ h \in lock.r
    /\ idx[h] >= Len(catalog)
    /\ Respond(h, PatternNotFoundResponse(Unwrap(req[h]).id, CallArgs(h).pattern_name))
    /\ UNCHANGED <<catalog, lock, req, idx, tools, locked, reloadVars>>
    /\ History

\* handle_tools_call: find() is exhausted; respond and drop the guard
ToolsCallNotFound(h) ==
    /\ hpc[h] = "reading"
    /\ Route(Unwrap(req[h]).method) = "handle_tools_call"
    /\ h \in lock.r
    /\ idx[h] >= Len(catalog)
    /\ Respond(h, PatternNotFoundResponse(Unwrap(req[h]).id, CallArgs(h).pattern_name))
    /\ lock' = ReadRelease(lock, h)
    /\ UNCHANGED <<catalog, req, idx, tools, locked, reloadVars>>
    /\ History

\* ParseFailure as it would be if a line that does not decode were dropped unanswered
ParseFailureDropsLine(h, line) ==
    /\ hpc[h] = "idle"
    /\ ~FromStr(line).ok
    /\ FALSE
    /\ UNCHANGED vars

\* run_stdio_server: the line does not decode; the dispatcher is not called
ParseFailure(h, line) ==
    /\ hpc[h] = "idle"
    /\ ~FromStr(line).ok
    /\ Respond(h, Error(JNull, PARSE_ERROR, "Parse error: " \o FromStr(line).e))
    /\ UNCHANGED <<catalog, lock, req, idx, tools, locked, reloadVars>>
    /\ History

\* the caller takes the response; the task is free for the next request
Return(h) ==
    /\ hpc[h] = "done"
    /\ hpc' = [hpc EXCEPT ![h] = "idle"]
    /\ req' = [req EXCEPT ![h] = None]
    /\ resp' = [resp EXCEPT ![h] = None]
    /\ idx' = [idx EXCEPT ![h] = 0]
    /\ tools' = [tools EXCEPT ![h] = <<>>]
    /\ locked' = [locked EXCEPT ![h] = FALSE]
    /\ UNCHANGED <<catalog, lock, reloadVars>>
    /\ History

(***************************************************************************)
(* McpServer::reload_patterns                                              *)
(***************************************************************************)
\* ReloadScanFails as it would be if the slot were emptied before load_all
ReloadScanFailsClearing(r, d) ==
    /\ rpc[r] = "idle"
    /\ ~Load(d).ok
    /\ rpc' = [rpc EXCEPT ![r] = "returned"]
    /\ rres' = [rres EXCEPT ![r] = Some(Err(Load(d).e))]
    /\ catalog' = <<>>
    /\ UNCHANGED <<lock, batch, handlerVars>>
    /\ History

\* load_all finds the patterns root in state d and fails: `?` returns the error
ReloadScanFails(r, d) ==
    /\ rpc[r] = "idle"
    /\ ~Load(d).ok
    /\ rpc' = [rpc EXCEPT ![r] = "returned"]
    /\ rres' = [rres EXCEPT ![r] = Some(Err(Load(d).e))]
    /\ UNCHANGED <<catalog, lock, batch, handlerVars>>
    /\ History

\* ReloadScan as it would be if the write guard were asked for before load_all
ReloadScanUnderWriteGuard(r, d) ==
    /\ rpc[r] = "idle"
    /\ Load(d).ok
    /\ rpc' = [rpc EXCEPT ![r] = "scanned"]
    /\ batch' = [batch EXCEPT ![r] = Load(d).v]
    /\ lock' = WriteRequest(lock, r)
    /\ UNCHANGED <<catalog, rres, handlerVars>>
    /\ History

\* load_all finds the patterns root in state d and succeeds
ReloadScan(r, d) ==
    /\ rpc[r] = "idle"
    /\ Load(d).ok
    /\ rpc' = [rpc EXCEPT ![r] = "scanned"]
    /\ batch' = [batch EXCEPT ![r] = Load(d).v]
    /\ UNCHANGED <<catalog, lock, rres, handlerVars>>
    /\ History

\* self.patterns.write().await
ReloadAcquire(r) ==
    /\ rpc[r] = "scanned"
    /\ rpc' = [rpc EXCEPT ![r] = "locking"]
    /\ lock' = WriteRequest(lock, r)
    /\ UNCHANGED <<catalog, batch, rres, handlerVars>>
    /\ History

\* ReloadSwap as it would be if the batch were appended to the Vec in the slot
ReloadSwapExtending(r) ==
    /\ rpc[r] = "locking"
    /\ r \in lock.w
    /\ catalog' = catalog \o batch[r]
    /\ lock' = WriteRelease(lock, r)
    /\ rpc' = [rpc EXCEPT ![r] = "returned"]
    /\ batch' = [batch EXCEPT ![r] = <<>>]
    /\ rres' = [rres EXCEPT ![r] = Some(Ok("unit"))]
    /\ UNCHANGED handlerVars
    /\ History

\* ReloadSwap as it would be if a batch overtaken by a later scan were dropped
ReloadSwapUnlessOvertaken(r) ==
    /\ rpc[r] = "locking"
    /\ r \in lock.w
    /\ catalog' = IF r \in scans.overtaken THEN catalog ELSE batch[r]
    /\ lock' = WriteRelease(lock, r)
    /\ rpc' = [rpc EXCEPT ![r] = "returned"]
    /\ batch' = [batch EXCEPT ![r] = <<>>]
    /\ rres' = [rres EXCEPT ![r] = Some(Ok("unit"))]
    /\ UNCHANGED handlerVars
    /\ History

\* *guard = patterns; the guard is dropped; Ok(())
ReloadSwap(r) ==
    /\ rpc[r] = "locking"
    /\ r \in lock.w
    /\ catalog' = batch[r]
    /\ lock' = WriteRelease(lock, r)
    /\ rpc' = [rpc EXCEPT ![r] = "returned"]
    /\ batch' = [batch EXCEPT ![r] = <<>>]
    /\ rres' = [rres EXCEPT ![r] = Some(Ok("unit"))]
    /\ UNCHANGED handlerVars
    /\ History

\* the caller takes the result
ReloadReturn(r) ==
    /\ rpc[r] = "returned"
    /\ rpc' = [rpc EXCEPT ![r] = "idle"]
    /\ rres' = [rres EXCEPT ![r] = None]
    /\ UNCHANGED <<catalog, lock, batch, handlerVars>>
    /\ History

(***************************************************************************)
(* The server binary: the transport loop decodes one line at a time and    *)
(* hands the request to handle_request; reloads come from other tasks.     *)
(***************************************************************************)
Next ==
    \/ \E h \in TransportTasks, rq \in DecodedRequests : Initialize(h, rq) /\ UNCHANGED envVars
    \/ \E h \in TransportTasks, rq \in DecodedRequests : MethodNotFound(h, rq) /\ UNCHANGED envVars
    \/ \E h \in TransportTasks, rq \in DecodedRequests : ToolsListBegin(h, rq) /\ UNCHANGED envVars
    \/ \E h \in TransportTasks : ToolsListNext(h) /\ UNCHANGED envVars
    \/ \E h \in TransportTasks : ToolsListEnd(h) /\ UNCHANGED envVars
    \/ \E h \in TransportTasks, rq \in DecodedRequests : ToolsCallInvalid(h, rq) /\ UNCHANGED envVars
    \/ \E h \in TransportTasks, rq \in DecodedRequests : ToolsCallBegin(h, rq) /\ UNCHANGED envVars
    \/ \E h \in TransportTasks : ToolsCallNext(h) /\ UNCHANGED envVars
    \/ \E h \in TransportTasks : ToolsCallFound(h) /\ UNCHANGED envVars
    \/ \E h \in TransportTasks : ToolsCallNotFound(h) /\ UNCHANGED envVars
    \/ \E h \in TransportTasks, l \in UndecodableLines : ParseFailure(h, l) /\ UNCHANGED envVars
    \/ \E h \in TransportTasks : Return(h) /\ UNCHANGED envVars
    \/ \E r \in Reloaders, d \in DiskStates : ReloadScanFails(r, d) /\ UNCHANGED envVars
    \/ \E r \in Reloaders, d \in DiskStates : ReloadScan(r, d) /\ UNCHANGED envVars
    \/ \E r \in Reloaders : ReloadAcquire(r) /\ UNCHANGED envVars
    \/ \E r \in Reloaders : ReloadSwap(r) /\ UNCHANGED envVars
    \/ \E r \in Reloaders : ReloadReturn(r) /\ UNCHANGED envVars

Spec == Init /\ [][Next]_vars

(***************************************************************************)
(* The server binary over one request of each kind and one line that does  *)
(* not decode, with the reloads of Spec.                                    *)
(***************************************************************************)
FrameRequests ==
    { JsonRpcRequest("2.0", JNum(1), "initialize", EmptyObj),
      JsonRpcRequest("2.0", JStr("a"), "tools/list", JNull),
      JsonRpcRequest("2.0", JNum(1), "unknown/method", JNull),
      JsonRpcRequest("2.0", JNull, "tools/call", JObj([arguments |-> Content])),
      JsonRpcRequest("2.0", JNum(1), "tools/call", JObj([name |-> JStr("fabric_zz"), arguments |-> Content])),
      JsonRpcRequest("2.0", JNum(1), "tools/call", JObj([name |-> JStr("fabric_b"), arguments |-> Content])) }

NextFrame ==
    \/ \E h \in TransportTasks, rq \in FrameRequests : Initialize(h, rq) /\ UNCHANGED envVars
    \/ \E h \in TransportTasks, rq \in FrameRequests : MethodNotFound(h, rq) /\ UNCHANGED envVars
    \/ \E h \in TransportTasks, rq \in FrameRequests : ToolsListBegin(h, rq) /\ UNCHANGED envVars
    \/ \E h \in TransportTasks : ToolsListNext(h) /\ UNCHANGED envVars
    \/ \E h \in TransportTasks : ToolsListEnd(h) /\ UNCHANGED envVars
    \/ \E h \in TransportTasks, rq \in FrameRequests : ToolsCallInvalid(h, rq) /\ UNCHANGED envVars
    \/ \E h \in TransportTasks, rq \in FrameRequests : ToolsCallBegin(h, rq) /\ UNCHANGED envVars
    \/ \E h \in TransportTasks : ToolsCallNext(h) /\ UNCHANGED envVars
    \/ \E h \in TransportTasks : ToolsCallFound(h) /\ UNCHANGED envVars
    \/ \E h \in TransportTasks : ToolsCallNotFound(h) /\ UNCHANGED envVars
    \/ \E h \in TransportTasks : ParseFailure(h, Malformed) /\ UNCHANGED envVars
    \/ \E h \in TransportTasks : Return(h) /\ UNCHANGED envVars
    \/ \E r \in Reloaders, d \in DiskStates : ReloadScanFails(r, d) /\ UNCHANGED envVars
    \/ \E r \in Reloaders, d \in DiskStates : ReloadScan(r, d) /\ UNCHANGED envVars
    \/ \E r \in Reloaders : ReloadAcquire(r) /\ UNCHANGED envVars
    \/ \E r \in Reloaders : ReloadSwap(r) /\ UNCHANGED envVars
    \/ \E r \in Reloaders : ReloadReturn(r) /\ UNCHANGED envVars

SpecFrame == Init /\ [][NextFrame]_vars

(***************************************************************************)
(* The library under concurrent callers: several tasks call handle_request *)
(* on one shared McpServer while others call reload_patterns.              *)
(***************************************************************************)
NextConc ==
    \/ \E h \in Handlers, rq \in ConcRequests : Initialize(h, rq) /\ UNCHANGED envVars
    \/ \E h \in Handlers, rq \in ConcRequests : MethodNotFound(h, rq) /\ UNCHANGED envVars
    \/ \E h \in Handlers, rq \in ConcRequests : ToolsListBegin(h, rq) /\ UNCHANGED envVars
    \/ \E h \in Handlers : ToolsListNext(h) /\ UNCHANGED envVars
    \/ \E h \in Handlers : ToolsListEnd(h) /\ UNCHANGED envVars
    \/ \E h \in Handlers, rq \in ConcRequests : ToolsCallInvalid(h, rq) /\ UNCHANGED envVars
    \/ \E h \in Handlers, rq \in ConcRequests : ToolsCallBegin(h, rq) /\ UNCHANGED envVars
    \/ \E h \in Handlers : ToolsCallNext(h) /\ UNCHANGED envVars
    \/ \E h \in Handlers : ToolsCallFound(h) /\ UNCHANGED envVars
    \/ \E h \in Handlers : ToolsCallNotFound(h) /\ UNCHANGED envVars
    \/ \E h \in Handlers : Return(h) /\ UNCHANGED envVars
    \/ \E r \in Reloaders, d \in DiskStates : ReloadScanFails(r, d) /\ UNCHANGED envVars
    \/ \E r \in Reloaders, d \in DiskStates : ReloadScan(r, d) /\ UNCHANGED envVars
    \/ \E r \in Reloaders : ReloadAcquire(r) /\ UNCHANGED envVars
    \/ \E r \in Reloaders : ReloadSwap(r) /\ UNCHANGED envVars
    \/ \E r \in Reloaders : ReloadReturn(r) /\ UNCHANGED envVars

SpecConc == Init /\ [][NextConc]_vars

(***************************************************************************)
(* The readers of the catalog and reload_patterns around the lock alone:   *)
(* tools/list and tools/call requests that reach read().await, and reloads *)
(* of a root that yields one pattern or cannot be read.                    *)
(***************************************************************************)
LockRequests ==
    { JsonRpcRequest("2.0", JNum(1), "tools/list", JNull),
      JsonRpcRequest("2.0", JNum(2), "tools/call", JObj([name |-> JStr("fabric_b"), arguments |-> Content])),
      JsonRpcRequest("2.0", JNum(2), "tools/call", JObj([name |-> JStr("fabric_zz"), arguments |-> Content])) }

LockDiskStates == {d \in DiskStates : ~Load(d).ok \/ Len(Load(d).v) = 1}

InitLock == Init /\ Len(catalog) = 1

NextLock ==
    \/ \E h \in Handlers, rq \in LockRequests : ToolsListBegin(h, rq) /\ UNCHANGED envVars
    \/ \E h \in Handlers : ToolsListNext(h) /\ UNCHANGED envVars
    \/ \E h \in Handlers : ToolsListEnd(h) /\ UNCHANGED envVars
    \/ \E h \in Handlers, rq \in LockRequests : ToolsCallBegin(h, rq) /\ UNCHANGED envVars
    \/ \E h \in Handlers : ToolsCallNext(h) /\ UNCHANGED envVars
    \/ \E h \in Handlers : ToolsCallFound(h) /\ UNCHANGED envVars
    \/ \E h \in Handlers : ToolsCallNotFound(h) /\ UNCHANGED envVars
    \/ \E h \in Handlers : Return(h) /\ UNCHANGED envVars
    \/ \E r \in Reloaders, d \in LockDiskStates : ReloadScanFails(r, d) /\ UNCHANGED envVars
    \/ \E r \in Reloaders, d \in LockDiskStates : ReloadScan(r, d) /\ UNCHANGED envVars
    \/ \E r \in Reloaders : ReloadAcquire(r) /\ UNCHANGED envVars
    \/ \E r \in Reloaders : ReloadSwap(r) /\ UNCHANGED envVars
    \/ \E r \in Reloaders : ReloadReturn(r) /\ UNCHANGED envVars

SpecLock == InitLock /\ [][NextLock]_vars

\* handler h holds read access and takes its next step
ReaderStep(h) ==
    (ToolsListNext(h) \/ ToolsListEnd(h) \/ ToolsCallNext(h) \/ ToolsCallFound(h) \/ ToolsCallNotFound(h))
    /\ UNCHANGED envVars

\* one task calling reload_patterns among the handlers
ProgressReloaders == {NumHandlers + 1}

NextProgress ==
    \/ \E h \in Handlers, rq \in LockRequests : ToolsListBegin(h, rq) /\ UNCHANGED envVars
    \/ \E h \in Handlers : ToolsListNext(h) /\ UNCHANGED envVars
    \/ \E h \in Handlers : ToolsListEnd(h) /\ UNCHANGED envVars
    \/ \E h \in Handlers, rq \in LockRequests : ToolsCallBegin(h, rq) /\ UNCHANGED envVars
    \/ \E h \in Handlers : ToolsCallNext(h) /\ UNCHANGED envVars
    \/ \E h \in Handlers : ToolsCallFound(h) /\ UNCHANGED envVars
    \/ \E h \in Handlers : ToolsCallNotFound(h) /\ UNCHANGED envVars
    \/ \E h \in Handlers : Return(h) /\ UNCHANGED envVars
    \/ \E r \in ProgressReloaders, d \in LockDiskStates : ReloadScanFails(r, d) /\ UNCHANGED envVars
    \/ \E r \in ProgressReloaders, d \in LockDiskStates : ReloadScan(r, d) /\ UNCHANGED envVars
    \/ \E r \in ProgressReloaders : ReloadAcquire(r) /\ UNCHANGED envVars
    \/ \E r \in ProgressReloaders : ReloadSwap(r) /\ UNCHANGED envVars
    \/ \E r \in ProgressReloaders : ReloadReturn(r) /\ UNCHANGED envVars

\* the runtime polls every task that is ready: a handler holding read access goes
\* on, and a reload holding the write guard assigns and returns
SpecProgress ==
    /\ InitLock
    /\ [][NextProgress]_vars
    /\ \A h \in Handlers : WF_vars(ReaderStep(h))
    /\ \A r \in ProgressReloaders : WF_vars(ReloadSwap(r) /\ UNCHANGED envVars)

(***************************************************************************)
(* tools/list and tools/call side by side: one task lists the tools while  *)
(* another calls a tool by name, over catalogs one of which holds a        *)
(* pattern whose own name starts with "fabric_"; reloads replace the       *)
(* catalog in between.                                                     *)
(***************************************************************************)
ListCallNames == {"fabric_b", "fabric_a", "fabric_fabric_a"}
ListCallContents == {"hello", ""}

ListCallRequests ==
    {JsonRpcRequest("2.0", JNum(1), "tools/list", JNull)}
    \cup {JsonRpcRequest("2.0", JNum(2), "tools/call",
                         JObj([name |-> JStr(n), arguments |-> JObj([content |-> JStr(c)])])) :
            n \in ListCallNames, c \in ListCallContents}

ListCallDiskStates ==
    {d \in DiskStates : d.entries \in {<<DirA, DirB>>, <<DirB, FileReadme, DirFabricA>>}}

InitListCall == Init /\ \E d \in ListCallDiskStates : catalog = Load(d).v

\* the task that lists the tools, and those that call them
Listers == {1}
Callers == Handlers \ Listers

NextListCall ==
    \/ \E h \in Listers, rq \in ListCallRequests : ToolsListBegin(h, rq) /\ UNCHANGED envVars
    \/ \E h \in Listers : ToolsListNext(h) /\ UNCHANGED envVars
    \/ \E h \in Listers : ToolsListEnd(h) /\ UNCHANGED envVars
    \/ \E h \in Callers, rq \in ListCallRequests : ToolsCallBegin(h, rq) /\ UNCHANGED envVars
    \/ \E h \in Callers : ToolsCallNext(h) /\ UNCHANGED envVars
    \/ \E h \in Callers : ToolsCallFound(h) /\ UNCHANGED envVars
    \/ \E h \in Callers : ToolsCallNotFound(h) /\ UNCHANGED envVars
    \/ \E h \in Handlers : Return(h) /\ UNCHANGED envVars
    \/ \E r \in ProgressReloaders, d \in ListCallDiskStates : ReloadScan(r, d) /\ UNCHANGED envVars
    \/ \E r \in ProgressReloaders : ReloadAcquire(r) /\ UNCHANGED envVars
    \/ \E r \in ProgressReloaders : ReloadSwap(r) /\ UNCHANGED envVars
    \/ \E r \in ProgressReloaders : ReloadReturn(r) /\ UNCHANGED envVars

SpecListCall == InitListCall /\ [][NextListCall]_vars

(***************************************************************************)
(* handle_request over tools/call requests with every combination of       *)
(* defects and a request of an unknown method, beside a reload.            *)
(***************************************************************************)
\* the names a tools/call comes with: none, not a string, without the prefix, of no
\* pattern, of a pattern
DefectNames == {None, Some(JNum(7)), Some(JStr("b")), Some(JStr("fabric_zz")), Some(JStr("fabric_b"))}
\* the arguments it comes with: none, without content, content not a string, content
DefectArguments == {None, Some(EmptyObj), Some(JObj([content |-> JNum(1)])), Some(Content)}

DefectParams(n, a) ==
    IF IsNone(n) /\ IsNone(a) THEN EmptyObj
    ELSE IF IsNone(n) THEN JObj([arguments |-> Unwrap(a)])
    ELSE IF IsNone(a) THEN JObj([name |-> Unwrap(n)])
    ELSE JObj([name |-> Unwrap(n), arguments |-> Unwrap(a)])

DefectRequests ==
    {JsonRpcRequest("2.0", JNum(1), "tools/call", DefectParams(n, a)) :
        n \in DefectNames, a \in DefectArguments}
    \cup {JsonRpcRequest("2.0", JNum(1), "unknown/method", JNull)}

NextDefect ==
    \/ \E h \in TransportTasks, rq \in DefectRequests : MethodNotFound(h, rq) /\ UNCHANGED envVars
    \/ \E h \in TransportTasks, rq \in DefectRequests : ToolsCallInvalid(h, rq) /\ UNCHANGED envVars
    \/ \E h \in TransportTasks, rq \in DefectRequests : ToolsCallBegin(h, rq) /\ UNCHANGED envVars
    \/ \E h \in TransportTasks : ToolsCallNext(h) /\ UNCHANGED envVars
    \/ \E h \in TransportTasks : ToolsCallFound(h) /\ UNCHANGED envVars
    \/ \E h \in TransportTasks : ToolsCallNotFound(h) /\ UNCHANGED envVars
    \/ \E h \in TransportTasks : Return(h) /\ UNCHANGED envVars
    \/ \E r \in Reloaders, d \in DiskStates : ReloadScanFails(r, d) /\ UNCHANGED envVars
    \/ \E r \in Reloaders, d \in DiskStates : ReloadScan(r, d) /\ UNCHANGED envVars
    \/ \E r \in Reloaders : ReloadAcquire(r) /\ UNCHANGED envVars
    \/ \E r \in Reloaders : ReloadSwap(r) /\ UNCHANGED envVars
    \/ \E r \in Reloaders : ReloadReturn(r) /\ UNCHANGED envVars

SpecDefect == Init /\ [][NextDefect]_vars

(***************************************************************************)
(* reload_patterns called by several tasks at overlapping times, and a     *)
(* tools/list reading the catalog between them.                            *)
(***************************************************************************)
OverlapRequests == {JsonRpcRequest("2.0", JNum(1), "tools/list", JNull)}

\* a root with two patterns, with one, and one that cannot be read
OverlapDiskStates ==
    {d \in DiskStates : ~d.root \/ d.entries \in {<<DirA, DirB>>, <<DirANoSystem, DirB>>}}

InitOverlap == Init /\ catalog = <<>>

NextOverlap ==
    \/ \E h \in TransportTasks, rq \in OverlapRequests : ToolsListBegin(h, rq) /\ UNCHANGED envVars
    \/ \E h \in TransportTasks : ToolsListNext(h) /\ UNCHANGED envVars
    \/ \E h \in TransportTasks : ToolsListEnd(h) /\ UNCHANGED envVars
    \/ \E h \in TransportTasks : Return(h) /\ UNCHANGED envVars
    \/ \E r \in Overlapping, d \in OverlapDiskStates : ReloadScanFails(r, d) /\ UNCHANGED envVars
    \/ \E r \in Overlapping, d \in OverlapDiskStates : ReloadScan(r, d) /\ UNCHANGED envVars
    \/ \E r \in Overlapping : ReloadAcquire(r) /\ UNCHANGED envVars
    \/ \E r \in Overlapping : ReloadSwap(r) /\ UNCHANGED envVars
    \/ \E r \in Overlapping : ReloadReturn(r) /\ UNCHANGED envVars

SpecOverlap == InitOverlap /\ [][NextOverlap]_vars

(***************************************************************************)
(* mcp/stdio.rs: run_stdio_server over an input stream and an output       *)
(* stream. The binary (main.rs) starts no task that reloads, so the        *)
(* catalog is the one McpServer::new loaded.                               *)
(***************************************************************************)
\* how many lines an input stream holds at most
MaxLines == 2

\* a line of text that is no JSON document
Text(s) == [kind |-> "text", s |-> s]

\* line.trim().is_empty() as it would be if no line were taken for blank
IsBlankNever(l) == FALSE

\* line.trim().is_empty(): a JSON document has a character that is no white space
IsBlank(l) == IF l.kind = "text" THEN Trim(l.s) = "" ELSE FALSE

\* the derived Serialize of JsonRpcError: data is skipped when None
ErrorToJson(e) ==
    IF IsSome(e.data)
    THEN JObj([code |-> JNum(e.code), message |-> JStr(e.message), data |-> Unwrap(e.data)])
    ELSE JObj([code |-> JNum(e.code), message |-> JStr(e.message)])

\* serde_json::to_string(&response): result and error are skipped when None
to_string(rs) ==
    Doc(IF IsSome(rs.result) /\ IsSome(rs.error)
        THEN JObj([jsonrpc |-> JStr(rs.jsonrpc), id |-> rs.id, result |-> Unwrap(rs.result),
                   error |-> ErrorToJson(Unwrap(rs.error))])
        ELSE IF IsSome(rs.result)
        THEN JObj([jsonrpc |-> JStr(rs.jsonrpc), id |-> rs.id, result |-> Unwrap(rs.result)])
        ELSE IF IsSome(rs.error)
        THEN JObj([jsonrpc |-> JStr(rs.jsonrpc), id |-> rs.id, error |-> ErrorToJson(Unwrap(rs.error))])
        ELSE JObj([jsonrpc |-> JStr(rs.jsonrpc), id |-> rs.id]))

\* Option<T>::deserialize: a JSON null is None, any other value is Some
OptionFromJson(v) == IF v.t = "null" THEN None ELSE Some(v)

\* the derived Deserialize of JsonRpcError on a JSON value: code and message are
\* required, data is None when absent or null
ErrorFromJson(v) ==
    IF v.t # "obj" THEN Err("invalid type")
    ELSE IF ~({"code", "message"} \subseteq DOMAIN v.o) THEN Err("missing field")
    ELSE IF v.o["code"].t # "num" \/ v.o["message"].t # "str" THEN Err("invalid type")
    ELSE Ok(JsonRpcError(v.o["code"].n, v.o["message"].s,
                         IF "data" \in DOMAIN v.o THEN OptionFromJson(v.o["data"]) ELSE None))

\* the derived Deserialize of JsonRpcResponse on a JSON object: jsonrpc and id are
\* required, result and error are None when absent or null
ResponseFromObject(o) ==
    IF ~({"jsonrpc", "id"} \subseteq DOMAIN o) THEN Err("missing field")
    ELSE IF o["jsonrpc"].t # "str" THEN Err("invalid type")
    ELSE LET result == IF "result" \in DOMAIN o THEN OptionFromJson(o["result"]) ELSE None
             error == IF "error" \in DOMAIN o /\ o["error"].t # "null"
                      THEN ErrorFromJson(o["error"]) ELSE Ok(None)
         IN IF ~error.ok THEN Err(error.e)
            ELSE Ok([jsonrpc |-> o["jsonrpc"].s, id |-> o["id"], result |-> result,
                     error |-> IF "error" \in DOMAIN o /\ o["error"].t # "null"
                               THEN Some(error.v) ELSE None])

\* b"\n"
Newline == Text("\n")

\* the lines of the input streams
StdioLines ==
    { Text("  \n"),
      Text("{\"jsonrpc\": \n"),
      Doc(JObj([jsonrpc |-> JStr("2.0"), id |-> JNum(7)])),
      Doc(JObj([jsonrpc |-> JStr("2.0"), method |-> JStr("initialize")])),
      RequestLine(JNum(1), "initialize", EmptyObj),
      BareRequestLine(JStr("a"), "tools/list"),
      RequestLine(JNum(2), "unknown/method", JNull),
      RequestLine(JNull, "tools/call", JObj([arguments |-> Content])),
      RequestLine(JNum(3), "tools/call", JObj([name |-> JStr("not_prefixed"), arguments |-> Content])),
      RequestLine(JNum(4), "tools/call", JObj([name |-> JStr("fabric_zz"), arguments |-> Content])),
      RequestLine(JNum(5), "tools/call", JObj([name |-> JStr("fabric_b"), arguments |-> Content])) }

\* the input streams: up to MaxLines lines, then the end of input
InputStreams == UNION {[1..n -> StdioLines] : n \in 0..MaxLines}

\* run_stdio_server is called on a constructed server
InitStdio ==
    /\ McpServerNew
    /\ stdin \in InputStreams
    /\ stdout = <<>> /\ flushed = 0
    /\ tpc = "read" /\ linebuf = None /\ brk = None /\ ret = None /\ taken = <<>>
    /\ CallOff

\* break, then the statements after the loop: Ok(())
Break(reason) ==
    /\ tpc' = "returned"
    /\ brk' = Some(reason)
    /\ ret' = Some(Ok("unit"))
    /\ UNCHANGED <<stdin, stdout, flushed, linebuf, taken, serverVars>>

\* ReadEof as it would be if the end of input were reported as an error
ReadEofAsError ==
    /\ tpc = "read"
    /\ stdin = <<>>
    /\ tpc' = "returned"
    /\ brk' = Some("eof")
    /\ ret' = Some(Err("unexpected end of input"))
    /\ UNCHANGED <<stdout, stdin, flushed, linebuf, taken, serverVars>>

\* read_line returns Ok(0)
ReadEof ==
    /\ tpc = "read"
    /\ stdin = <<>>
    /\ Break("eof")

\* read_line returns Err
ReadFails ==
    /\ tpc = "read"
    /\ Break("read")

\* ReadBlank as it would be if a blank line were taken for the end of input
ReadBlankAsEof ==
    /\ tpc = "read"
    /\ stdin # <<>> /\ IsBlank(Head(stdin))
    /\ stdin' = Tail(stdin)
    /\ taken' = Append(taken, Head(stdin))
    /\ tpc' = "returned"
    /\ brk' = Some("eof")
    /\ ret' = Some(Ok("unit"))
    /\ UNCHANGED <<stdout, flushed, linebuf, serverVars>>

\* read_line returns a line that is empty after trimming: continue
ReadBlank ==
    /\ tpc = "read"
    /\ stdin # <<>> /\ IsBlank(Head(stdin))
    /\ stdin' = Tail(stdin)
    /\ taken' = Append(taken, Head(stdin))
    /\ UNCHANGED <<stdout, flushed, tpc, linebuf, brk, ret, serverVars>>

\* read_line returns a line to decode
ReadLine ==
    /\ tpc = "read"
    /\ stdin # <<>> /\ ~IsBlank(Head(stdin))
    /\ stdin' = Tail(stdin)
    /\ linebuf' = Some(Head(stdin))
    /\ taken' = Append(taken, Head(stdin))
    /\ tpc' = "dispatch"
    /\ UNCHANGED <<stdout, flushed, brk, ret, serverVars>>

\* serde_json::from_str::<JsonRpcRequest>(&line) of the line of this iteration
Decoded == FromStr(Unwrap(linebuf))

\* the line decoded: server.handle_request(request) is about to be called
Dispatching(h) == tpc = "dispatch" /\ hpc[h] = "idle" /\ Decoded.ok

\* stdout.write_all(response_json.as_bytes())
WriteAll(h) ==
    /\ tpc = "dispatch" /\ hpc[h] = "done"
    /\ stdout' = Append(stdout, to_string(Unwrap(resp[h])))
    /\ tpc' = "write_newline"
    /\ UNCHANGED <<stdin, flushed, linebuf, brk, ret, taken, serverVars>>

WriteAllFails(h) ==
    /\ tpc = "dispatch" /\ hpc[h] = "done"
    /\ Break("write_all")

\* stdout.write_all(b"\n")
WriteNewline ==
    /\ tpc = "write_newline"
    /\ stdout' = Append(stdout, Newline)
    /\ tpc' = "flush"
    /\ UNCHANGED <<stdin, flushed, linebuf, brk, ret, taken, serverVars>>

WriteNewlineFails ==
    /\ tpc = "write_newline"
    /\ Break("write_newline")

\* stdout.flush() as it would be if the loop went on without flushing
FlushSkipped(h) ==
    /\ tpc = "flush"
    /\ tpc' = "read"
    /\ linebuf' = None
    /\ Return(h)
    /\ UNCHANGED <<stdin, stdout, flushed, brk, ret, taken, startupVars, callVars>>

\* stdout.flush(); the iteration ends: the response is dropped, line.clear()
Flush(h) ==
    /\ tpc = "flush"
    /\ flushed' = Len(stdout)
    /\ tpc' = "read"
    /\ linebuf' = None
    /\ Return(h)
    /\ UNCHANGED <<stdin, stdout, brk, ret, taken, startupVars, callVars>>

FlushFails ==
    /\ tpc = "flush"
    /\ Break("flush")

NextStdio ==
    \/ ReadEof
    \/ ReadFails
    \/ ReadBlank
    \/ ReadLine
    \/ \E h \in TransportTasks : Dispatching(h) /\ Initialize(h, Decoded.v) /\ UNCHANGED envVars
    \/ \E h \in TransportTasks : Dispatching(h) /\ MethodNotFound(h, Decoded.v) /\ UNCHANGED envVars
    \/ \E h \in TransportTasks : Dispatching(h) /\ ToolsListBegin(h, Decoded.v) /\ UNCHANGED envVars
    \/ \E h \in TransportTasks : ToolsListNext(h) /\ UNCHANGED envVars
    \/ \E h \in TransportTasks : ToolsListEnd(h) /\ UNCHANGED envVars
    \/ \E h \in TransportTasks : Dispatching(h) /\ ToolsCallInvalid(h, Decoded.v) /\ UNCHANGED envVars
    \/ \E h \in TransportTasks : Dispatching(h) /\ ToolsCallBegin(h, Decoded.v) /\ UNCHANGED envVars
    \/ \E h \in TransportTasks : ToolsCallNext(h) /\ UNCHANGED envVars
    \/ \E h \in TransportTasks : ToolsCallFound(h) /\ UNCHANGED envVars
    \/ \E h \in TransportTasks : ToolsCallNotFound(h) /\ UNCHANGED envVars
    \/ \E h \in TransportTasks : tpc = "dispatch" /\ ParseFailure(h, Unwrap(linebuf)) /\ UNCHANGED envVars
    \/ \E h \in TransportTasks : WriteAll(h)
    \/ \E h \in TransportTasks : WriteAllFails(h)
    \/ WriteNewline
    \/ WriteNewlineFails
    \/ \E h \in TransportTasks : Flush(h)
    \/ FlushFails

SpecStdio == InitStdio /\ [][NextStdio]_vars

\* the loop is a running task and its streams answer every call: it takes its next step
SpecStdioFair == SpecStdio /\ WF_vars(NextStdio)

\* the lines of StdioLines, and each method once without params and once with params {}
ParamsLines ==
    StdioLines
    \cup { BareRequestLine(JNum(1), "initialize"),
           RequestLine(JStr("a"), "tools/list", EmptyObj),
           BareRequestLine(JNum(6), "tools/call"),
           RequestLine(JNum(6), "tools/call", EmptyObj),
           BareRequestLine(JNum(2), "unknown/method"),
           RequestLine(JNum(2), "unknown/method", EmptyObj) }

InitStdioParams ==
    /\ McpServerNew
    /\ stdin \in UNION {[1..n -> ParamsLines] : n \in 0..MaxLines}
    /\ stdout = <<>> /\ flushed = 0
    /\ tpc = "read" /\ linebuf = None /\ brk = None /\ ret = None /\ taken = <<>>
    /\ CallOff

SpecStdioParams == InitStdioParams /\ [][NextStdio]_vars

(***************************************************************************)
(* Construction: PatternLoader::new resolves the patterns root once,       *)
(* McpServer::new loads it; reload_patterns loads the same root again.     *)
(* The environment may change the candidate locations at any time.         *)
(***************************************************************************)
SubmodulePath == "data/fabric/data/patterns"
UserPath(home) == home \o "/.config/fabric/patterns"

\* Error::pattern_directory_not_found
PatternDirectoryNotFound(locations) == [kind |-> "PatternDirectoryNotFound", locations |-> locations]

\* resolve_patterns_dir as it would be if the user's installation were probed first
ResolveUserFirst(f) ==
    IF IsSome(f.home) /\ f.user.root THEN Ok(UserPath(Unwrap(f.home)))
    ELSE IF f.sub.root THEN Ok(SubmodulePath)
    ELSE Err(PatternDirectoryNotFound(
                (IF IsSome(f.home) THEN <<UserPath(Unwrap(f.home))>> ELSE <<>>) \o <<SubmodulePath>>))

\* PatternLoader::resolve_patterns_dir in environment f
resolve_patterns_dir(f) ==
    IF f.sub.root THEN Ok(SubmodulePath)
    ELSE IF IsSome(f.home)
         THEN IF f.user.root THEN Ok(UserPath(Unwrap(f.home)))
              ELSE Err(PatternDirectoryNotFound(<<SubmodulePath, UserPath(Unwrap(f.home))>>))
    ELSE Err(PatternDirectoryNotFound(<<SubmodulePath>>))

\* the environments: what the two candidate locations hold, and HOME
FsStates ==
    [sub : DiskStates,
     home : {None, Some("/home/u")},
     user : UserDiskStates]

\* what self.patterns_dir holds now
LoaderDir == IF loader = Some(SubmodulePath) THEN fs.sub ELSE fs.user

\* reload_patterns(&self) as it would be callable if a failed construction left a server
ReloadableWithoutServer == spc \in {"up", "failed"}

\* reload_patterns(&self) can be called: McpServer::new returned a server
Reloadable == spc = "up"

InitStartup ==
    /\ fs \in FsStates
    /\ spc = "new" /\ loader = None /\ sres = None
    /\ catalog = <<>>
    /\ lock = Unlocked
    /\ hpc = [h \in Handlers |-> "idle"]
    /\ req = [h \in Handlers |-> None]
    /\ resp = [h \in Handlers |-> None]
    /\ idx = [h \in Handlers |-> 0]
    /\ tools = [h \in Handlers |-> <<>>]
    /\ rpc = [r \in ReloadTasks |-> "idle"]
    /\ batch = [r \in ReloadTasks |-> <<>>]
    /\ rres = [r \in ReloadTasks |-> None]
    /\ scans = NoScans
    /\ seen = [h \in Handlers |-> {}]
    /\ snap = [h \in Handlers |-> None]
    /\ locked = [h \in Handlers |-> FALSE]
    /\ StdioOff
    /\ CallOff

unchangedByStartup == <<lock, hpc, req, resp, idx, tools, rpc, batch, rres, seen, snap, locked, scans, stdioVars, callVars>>

\* PatternLoader::new()?: the root is resolved
Resolve ==
    /\ spc = "new"
    /\ resolve_patterns_dir(fs).ok
    /\ loader' = Some(resolve_patterns_dir(fs).v)
    /\ spc' = "resolved"
    /\ UNCHANGED <<fs, sres, catalog, unchangedByStartup>>

\* PatternLoader::new()?: no candidate exists, McpServer::new returns the error
ResolveFails ==
    /\ spc = "new"
    /\ ~resolve_patterns_dir(fs).ok
    /\ sres' = Some(Err(resolve_patterns_dir(fs).e))
    /\ spc' = "failed"
    /\ UNCHANGED <<fs, loader, catalog, unchangedByStartup>>

\* pattern_loader.load_all().await?; Ok(Self {..})
Construct ==
    /\ spc = "resolved"
    /\ Load(LoaderDir).ok
    /\ catalog' = Load(LoaderDir).v
    /\ sres' = Some(Ok("server"))
    /\ spc' = "up"
    /\ UNCHANGED <<fs, loader, unchangedByStartup>>

\* pattern_loader.load_all().await? fails, McpServer::new returns the error
ConstructFails ==
    /\ spc = "resolved"
    /\ ~Load(LoaderDir).ok
    /\ sres' = Some(Err(Load(LoaderDir).e))
    /\ spc' = "failed"
    /\ UNCHANGED <<fs, loader, catalog, unchangedByStartup>>

\* the environment changes: a location appears, disappears or changes, HOME changes
FsChange ==
    /\ fs' \in FsStates
    /\ fs' # fs
    /\ UNCHANGED <<spc, loader, sres, catalog, unchangedByStartup>>

\* reload_patterns: load_all of the resolved root succeeds; fails
StartupReloadScan(r) ==
    Reloadable /\ ReloadScan(r, LoaderDir) /\ UNCHANGED envVars
StartupReloadScanFails(r) ==
    Reloadable /\ ReloadScanFails(r, LoaderDir) /\ UNCHANGED envVars

NextStartup ==
    \/ Resolve
    \/ ResolveFails
    \/ Construct
    \/ ConstructFails
    \/ FsChange
    \/ \E r \in Reloaders : StartupReloadScan(r)
    \/ \E r \in Reloaders : StartupReloadScanFails(r)
    \/ \E r \in Reloaders : ReloadAcquire(r) /\ UNCHANGED envVars
    \/ \E r \in Reloaders : ReloadSwap(r) /\ UNCHANGED envVars
    \/ \E r \in Reloaders : ReloadReturn(r) /\ UNCHANGED envVars

SpecStartup == InitStartup /\ [][NextStartup]_vars

(***************************************************************************)
(* The functions of the library that the server binary's request path does *)
(* not reach, called on their own: Pattern::matches over every query of a  *)
(* small alphabet, extract_metadata over contents made of a few phrases,   *)
(* and a response serialized and read back.                                *)
(***************************************************************************)
\* the longest query
MaxQueryLen == 3

QueryChars == {"a", "A", "b"}

RECURSIVE StringsUpTo(_)
StringsUpTo(n) ==
    IF n = 0 THEN {""}
    ELSE StringsUpTo(n - 1) \cup {s \o c : s \in StringsUpTo(n - 1), c \in QueryChars}

Queries == StringsUpTo(MaxQueryLen)

MatchPatterns ==
    { Pattern("Ab", "ba", "", None, None, <<"BB">>),
      Pattern("b", "", "", None, Some("aA"), <<>>),
      Pattern("", "bAb", "", None, Some("B"), <<"a", "Bb">>),
      Pattern("", "", "", None, None, <<>>) }

\* the most phrases in a content
MaxPhrases == 3

\* the contents of the tests of extract_metadata, and phrases in other cases
Phrases ==
    { "Analyze security threats and vulnerabilities",
      "Help with writing essays and articles",
      "Analyze code and programming patterns",
      "Summarize content and extract key points",
      "SOFTWARE Article",
      "a Decoder",
      "plain text" }

RECURSIVE ContentsUpTo(_)
ContentsUpTo(n) ==
    IF n = 0 THEN {""}
    ELSE ContentsUpTo(n - 1) \cup {c \o "\n" \o ph : c \in ContentsUpTo(n - 1), ph \in Phrases}

Contents == ContentsUpTo(MaxPhrases)

\* the most lines in a primary content
MaxContentLines == 4

\* a line of 70 characters
LongLine == "A long line of ordinary prose that runs on for seventy characters here"

\* the lines a primary content is made of: a marker header, an empty line, a padded
\* line of text, another header, a long line, a line of text holding a marker
ContentLines ==
    { "# IDENTITY and PURPOSE",
      "",
      "  You summarize text.  ",
      "## STEPS",
      LongLine,
      "see # PURPOSE below" }

RECURSIVE PrimaryContentsUpTo(_)
PrimaryContentsUpTo(n) ==
    IF n = 0 THEN {""}
    ELSE PrimaryContentsUpTo(n - 1)
         \cup {c \o l \o "\n" : c \in PrimaryContentsUpTo(n - 1), l \in ContentLines}

PrimaryContents == PrimaryContentsUpTo(MaxContentLines)

\* the subdirectories ingested on their own: one for each content, one without system.md
IngestedDirs ==
    {DirEntry(Some("p"), "dir", Some(c), None, TRUE) : c \in Contents} \cup {DirANoSystem}

\* the responses serialized and read back
RoundTripResults ==
    {JNull, JBool(TRUE), JNum(0), JStr(""), JArr(<<>>), EmptyObj, JObj([tools |-> JArr(<<>>)])}

RoundTripResponses ==
    {Success(id, result) : id \in Ids, result \in RoundTripResults}
    \cup {Error(id, METHOD_NOT_FOUND, "Method not found") : id \in Ids}
    \cup {ErrorWithData(id, INTERNAL_ERROR, "m", data) : id \in Ids, data \in {JNull, EmptyObj}}

InitCall ==
    /\ McpServerNew /\ catalog = <<>>
    /\ StdioOff
    /\ called_wire = None /\ called_ret = None
    /\ \/ called = "matches" /\ called_arg \in [pattern : MatchPatterns, query : Queries]
       \/ called = "extract_metadata" /\ called_arg \in Contents
       \/ called = "extract_description" /\ called_arg \in PrimaryContents
       \/ called = "load_pattern" /\ called_arg \in IngestedDirs
       \/ called = "round_trip" /\ called_arg \in RoundTripResponses

\* pattern.matches(query)
Matches ==
    /\ called = "matches" /\ called_ret = None
    /\ called_ret' = Some(matches(called_arg.pattern, called_arg.query))
    /\ UNCHANGED <<called, called_arg, called_wire, catalog, lock, handlerVars, reloadVars, seen, snap, scans, startupVars, stdioVars>>

\* extract_metadata(content)
ExtractMetadata ==
    /\ called = "extract_metadata" /\ called_ret = None
    /\ called_ret' = Some(extract_metadata(called_arg))
    /\ UNCHANGED <<called, called_arg, called_wire, catalog, lock, handlerVars, reloadVars, seen, snap, scans, startupVars, stdioVars>>

\* extract_description(content)
ExtractDescription ==
    /\ called = "extract_description" /\ called_ret = None
    /\ called_ret' = Some(extract_description(called_arg))
    /\ UNCHANGED <<called, called_arg, called_wire, catalog, lock, handlerVars, reloadVars, seen, snap, scans, startupVars, stdioVars>>

\* self.load_pattern(&entry.path())
LoadPattern ==
    /\ called = "load_pattern" /\ called_ret = None
    /\ called_ret' = Some(load_pattern(called_arg))
    /\ UNCHANGED <<called, called_arg, called_wire, catalog, lock, handlerVars, reloadVars, seen, snap, scans, startupVars, stdioVars>>

\* serde_json::to_string(&response)
Serialize ==
    /\ called = "round_trip" /\ called_wire = None
    /\ called_wire' = Some(to_string(called_arg))
    /\ UNCHANGED <<called, called_arg, called_ret, catalog, lock, handlerVars, reloadVars, seen, snap, scans, startupVars, stdioVars>>

\* serde_json::from_str::<JsonRpcResponse>(&serialized)
Deserialize ==
    /\ called = "round_trip" /\ IsSome(called_wire) /\ called_ret = None
    /\ called_ret' = Some(ResponseFromObject(Unwrap(called_wire).v.o))
    /\ UNCHANGED <<called, called_arg, called_wire, catalog, lock, handlerVars, reloadVars, seen, snap, scans, startupVars, stdioVars>>

NextCall ==
    \/ Matches
    \/ ExtractMetadata
    \/ ExtractDescription
    \/ LoadPattern
    \/ Serialize
    \/ Deserialize

SpecCall == InitCall /\ [][NextCall]_vars

(***************************************************************************)
(* Vocabulary of the properties.                                           *)
(***************************************************************************)
\* task h has answered a decoded request: the request and the response
Answered(h) == hpc[h] = "done" /\ IsSome(req[h])
Rq(h) == Unwrap(req[h])
Rs(h) == Unwrap(resp[h])

\* response rs is an error of the given code, with no result
IsErrorWith(rs, code) == IsNone(rs.result) /\ IsSome(rs.error) /\ Unwrap(rs.error).code = code
MessageOf(rs) == Unwrap(rs.error).message
\* response rs is a success
IsSuccess(rs) == IsSome(rs.result) /\ IsNone(rs.error)

\* params carries a string 'name', a string 'arguments.content'
HasStringName(ps) == ps.t = "obj" /\ "name" \in DOMAIN ps.o /\ ps.o["name"].t = "str"
HasStringContent(ps) ==
    /\ ps.t = "obj" /\ "arguments" \in DOMAIN ps.o
    /\ ps.o["arguments"].t = "obj" /\ "content" \in DOMAIN ps.o["arguments"].o
    /\ ps.o["arguments"].o["content"].t = "str"
NameOf(ps) == ps.o["name"].s
ContentOf(ps) == ps.o["arguments"].o["content"].s
Prefixed(n) == Len(n) >= 7 /\ SubSeq(n, 1, 7) = "fabric_"
\* the p of a name fabric_<p>
Unprefixed(n) == SubSeq(n, 8, Len(n))

\* the positions of catalog c whose pattern is named exactly p
Named(c, p) == {i \in 1..Len(c) : c[i].name = p}
First(S) == CHOOSE i \in S : \A j \in S : i <= j

\* the tool descriptors of a tools/list success
ToolsOf(rs) == Unwrap(rs.result).o["tools"].a

\* the whole of catalog c as tools/list lists it
WholeList(c) == [i \in 1..Len(c) |-> ToolDescriptor(c[i])]

\* the answer of a tools/call for pattern p with the given content over the whole of catalog c
WholeCall(id, c, p, content) ==
    IF Named(c, p) = {} THEN PatternNotFoundResponse(id, p)
    ELSE ToolsCallResponse(id, c[First(Named(c, p))], content)

\* h is a tools/call that passed validation
IsValidCall(h) ==
    /\ Rq(h).method = "tools/call"
    /\ HasStringName(Rq(h).params) /\ Prefixed(NameOf(Rq(h).params))
    /\ HasStringContent(Rq(h).params)

(***************************************************************************)
(* C1: a tools/list or tools/call that overlaps a reload answers from the  *)
(* whole of one catalog the slot held while the request waited for or held *)
(* read access (the catalog before the reload or the one after it); the    *)
(* tool count is the length of that catalog, never a mixture.              *)
(***************************************************************************)
C1_WholeCatalogObserved ==
    \A h \in Handlers :
        Answered(h) /\ locked[h] =>
            /\ Rq(h).method = "tools/list" =>
                 /\ \E c \in seen[h] : Rs(h) = ToolsListResponse(Rq(h).id, WholeList(c))
                 /\ Len(ToolsOf(Rs(h))) \in {Len(c) : c \in seen[h]}
            /\ Rq(h).method = "tools/call" =>
                 \E c \in seen[h] :
                    Rs(h) = WholeCall(Rq(h).id, c, Unprefixed(NameOf(Rq(h).params)),
                                      ContentOf(Rq(h).params))

\* a tools/list has answered, and a reload replaced an N-pattern catalog by an
\* M-pattern one, N # M, while it waited for or held read access
C1_Witness ==
    \E h \in Handlers :
        /\ Answered(h) /\ Rq(h).method = "tools/list"
        /\ \E c1 \in seen[h], c2 \in seen[h] : Len(c1) # Len(c2)

(***************************************************************************)
(* C2: the response to a decoded request carries the request's id, for     *)
(* every method and for results and errors alike, a null id included.      *)
(***************************************************************************)
C2_IdEchoed == \A h \in Handlers : Answered(h) => Rs(h).id = Rq(h).id

\* an error response to a request whose id is null
C2_Witness ==
    \E h \in Handlers :
        Answered(h) /\ Rq(h).id = JNull /\ IsSome(Rs(h).error) /\ Rq(h).method = "tools/call"

(***************************************************************************)
(* C3: every response, from the dispatcher or from the decode-failure path *)
(* of the transport, has exactly one of result and error.                  *)
(***************************************************************************)
C3_ResultXorError ==
    \A h \in Handlers : hpc[h] = "done" => (IsSome(Rs(h).result) # IsSome(Rs(h).error))

\* a response of the decode-failure path: no request was decoded
C3_Witness ==
    \E h \in Handlers : hpc[h] = "done" /\ IsNone(req[h]) /\ IsSome(Rs(h).error)

(***************************************************************************)
(* C4: tools/list succeeds with one tool per pattern of the catalog it     *)
(* read, in catalog order: as many tools as patterns, the i-th named       *)
(* "fabric_" followed by the i-th pattern's name and described by its      *)
(* description; an empty catalog gives a success with an empty list.       *)
(***************************************************************************)
C4_ToolsListProjectsCatalog ==
    \A h \in Handlers :
        Answered(h) /\ Rq(h).method = "tools/list" =>
            /\ IsSome(snap[h])
            /\ IsSuccess(Rs(h))
            /\ Len(ToolsOf(Rs(h))) = Len(Unwrap(snap[h]))
            /\ \A i \in 1..Len(Unwrap(snap[h])) :
                 /\ ToolsOf(Rs(h))[i].o["name"] = JStr("fabric_" \o Unwrap(snap[h])[i].name)
                 /\ ToolsOf(Rs(h))[i].o["description"] = JStr(Unwrap(snap[h])[i].description)

\* a tools/list answered over a catalog of two patterns
C4_Witness ==
    \E h \in Handlers :
        Answered(h) /\ Rq(h).method = "tools/list" /\ Len(Unwrap(snap[h])) = 2
        /\ Len(ToolsOf(Rs(h))) = 2

(***************************************************************************)
(* C5: a tools/call named fabric_<p> with string content, over a catalog   *)
(* holding a pattern named p, succeeds with exactly one content item of    *)
(* type "text": the system prompt, then the user prompt only if present,   *)
(* then the content, each under its own heading.                           *)
(***************************************************************************)
C5_PromptComposed ==
    \A h \in Handlers :
        Answered(h) /\ IsValidCall(h) /\ IsSome(snap[h])
        /\ Named(Unwrap(snap[h]), Unprefixed(NameOf(Rq(h).params))) # {} =>
            LET c == Unwrap(snap[h])
                p == c[First(Named(c, Unprefixed(NameOf(Rq(h).params))))]
                items == Unwrap(Rs(h).result).o["content"].a
                text == "# System Prompt\n\n" \o p.system_prompt
                        \o (IF IsSome(p.user_prompt)
                            THEN "\n\n# User Prompt Template\n\n" \o Unwrap(p.user_prompt)
                            ELSE "")
                        \o "\n\n# Content to Process\n\n" \o ContentOf(Rq(h).params)
            IN /\ IsSuccess(Rs(h))
               /\ Len(items) = 1
               /\ items[1] = JObj([type |-> JStr("text"), text |-> JStr(text)])

\* a tools/call answered from a pattern that has a user prompt
C5_Witness ==
    \E h \in Handlers :
        /\ Answered(h) /\ IsValidCall(h) /\ IsSuccess(Rs(h))
        /\ \E i \in 1..Len(Unwrap(snap[h])) :
              /\ Unwrap(snap[h])[i].name = Unprefixed(NameOf(Rq(h).params))
              /\ IsSome(Unwrap(snap[h])[i].user_prompt)

(***************************************************************************)
(* C6: a tools/call without a string 'name' is answered by an error of     *)
(* code -32603 saying the tool name is missing; one with a prefixed name   *)
(* but without a string arguments.content by an error of code -32603       *)
(* saying the content is missing: whether or not the pattern exists, with  *)
(* params omitted, and with the field present but not a string.            *)
(***************************************************************************)
C6_MissingArguments ==
    \A h \in Handlers :
        Answered(h) /\ Rq(h).method = "tools/call" =>
            /\ ~HasStringName(Rq(h).params) =>
                 IsErrorWith(Rs(h), -32603) /\ MessageOf(Rs(h)) = "Missing tool name"
            /\ HasStringName(Rq(h).params) /\ Prefixed(NameOf(Rq(h).params))
               /\ ~HasStringContent(Rq(h).params) =>
                 IsErrorWith(Rs(h), -32603) /\ MessageOf(Rs(h)) = "Missing content argument"

\* a tools/call whose content is present but no string, for a pattern that exists
C6_Witness ==
    \E h \in Handlers :
        /\ Answered(h) /\ Rq(h).method = "tools/call"
        /\ Rq(h).params = JObj([name |-> JStr("fabric_a"), arguments |-> JObj([content |-> JNum(1)])])
        /\ MessageOf(Rs(h)) = "Missing content argument"
        /\ \E i \in 1..Len(catalog) : catalog[i].name = "a"

(***************************************************************************)
(* C7: a tools/call whose name is a string without the prefix "fabric_" is *)
(* answered by an error of code -32603, with no result, whose message      *)
(* names the tool.                                                         *)
(***************************************************************************)
C7_InvalidToolName ==
    \A h \in Handlers :
        Answered(h) /\ Rq(h).method = "tools/call" /\ HasStringName(Rq(h).params)
        /\ ~Prefixed(NameOf(Rq(h).params)) =>
            /\ IsErrorWith(Rs(h), -32603)
            /\ MessageOf(Rs(h)) = "Invalid tool name: " \o NameOf(Rq(h).params)

\* the tools/call named "not_prefixed" has been answered
C7_Witness ==
    \E h \in Handlers :
        /\ Answered(h) /\ Rq(h).method = "tools/call" /\ HasStringName(Rq(h).params)
        /\ NameOf(Rq(h).params) = "not_prefixed"
        /\ IsSome(Rs(h).error)

(***************************************************************************)
(* C8: for a tools/call named fabric_<p> with string content: if no        *)
(* pattern of the catalog it read is named exactly p (p empty included),   *)
(* the answer is an error of code -32603 naming p; otherwise the first     *)
(* pattern of that name in catalog order is the one used.                  *)
(***************************************************************************)
C8_ExactLookup ==
    \A h \in Handlers :
        Answered(h) /\ IsValidCall(h) =>
            LET c == Unwrap(snap[h])
                p == Unprefixed(NameOf(Rq(h).params))
            IN /\ IsSome(snap[h])
               /\ Named(c, p) = {} =>
                    /\ IsErrorWith(Rs(h), -32603)
                    /\ MessageOf(Rs(h)) = "Pattern not found: " \o p
               /\ Named(c, p) # {} =>
                    Rs(h) = ToolsCallResponse(Rq(h).id, c[First(Named(c, p))], ContentOf(Rq(h).params))

\* fabric_A is not found in a catalog that holds pattern a
C8_Witness ==
    \E h \in Handlers :
        /\ Answered(h) /\ IsValidCall(h)
        /\ NameOf(Rq(h).params) = "fabric_A"
        /\ Named(Unwrap(snap[h]), "a") # {}
        /\ IsSome(Rs(h).error)

(***************************************************************************)
(* C9: a request whose method is none of initialize, tools/list and        *)
(* tools/call is answered by the error of code -32601 with no result,      *)
(* whatever its params and whatever the catalog holds.                     *)
(***************************************************************************)
C9_MethodNotFound ==
    \A h \in Handlers :
        Answered(h) /\ Rq(h).method \notin {"initialize", "tools/list", "tools/call"} =>
            /\ IsErrorWith(Rs(h), -32601)
            /\ Rs(h) = [jsonrpc |-> "2.0", id |-> Rq(h).id, result |-> None,
                        error |-> Some([code |-> -32601, message |-> "Method not found",
                                        data |-> None])]

\* the request with method "tools/List" and the params of a tools/call has been answered
C9_Witness ==
    \E h \in Handlers :
        /\ Answered(h) /\ Rq(h).method = "tools/List"
        /\ HasStringName(Rq(h).params)
        /\ IsSome(Rs(h).error)

(***************************************************************************)
(* C10: a request with method initialize is answered with a result, no     *)
(* error and the request's id, without asking for catalog access; it can   *)
(* be answered in every state in which its task is idle, also while a      *)
(* reload holds the write guard.                                           *)
(***************************************************************************)
InitializeRequests == {rq \in DecodedRequests : rq.method = "initialize"}

C10_InitializeAlwaysSucceeds ==
    \A h \in TransportTasks :
        /\ Answered(h) /\ Rq(h).method = "initialize" =>
             /\ IsSuccess(Rs(h))
             /\ Rs(h).id = Rq(h).id
             /\ ~locked[h]
             /\ h \notin lock.r
             /\ \A k \in 1..Len(lock.q) : lock.q[k][1] # h
        /\ hpc[h] = "idle" => \A rq \in InitializeRequests : ENABLED Initialize(h, rq)

\* an initialize answered while a reload holds the write guard
C10_Witness ==
    \E h \in TransportTasks :
        Answered(h) /\ Rq(h).method = "initialize" /\ IsSuccess(Rs(h)) /\ lock.w # {}

(***************************************************************************)
(* Vocabulary of the transport properties.                                 *)
(***************************************************************************)
\* line l is white space only
WhiteSpaceOnly(l) ==
    l.kind = "text" /\ \A i \in 1..Len(l.s) : SubSeq(l.s, i, i) \in {" ", "\n", "\r", "\t"}
\* line l is no JSON document; line l is a JSON object without one of the required fields
MalformedJson(l) == l.kind # "json"
LacksRequiredField(l) ==
    l.kind = "json" /\ l.v.t = "obj" /\ ~({"jsonrpc", "id", "method"} \subseteq DOMAIN l.v.o)
CannotDecode(l) == MalformedJson(l) \/ LacksRequiredField(l)

\* the lines read so far that are not blank; the response documents written so far
NonBlank(ls) == SelectSeq(ls, LAMBDA l : ~WhiteSpaceOnly(l))
Bodies(out) == SelectSeq(out, LAMBDA x : x.kind = "json")

\* output document d is an error of the given code without result; a success without error
OutIsError(d, code) ==
    /\ d.kind = "json" /\ d.v.t = "obj"
    /\ {"jsonrpc", "id", "error"} \subseteq DOMAIN d.v.o /\ "result" \notin DOMAIN d.v.o
    /\ d.v.o["error"].o["code"] = JNum(code)
    /\ d.v.o["error"].o["message"].t = "str"
OutIsSuccess(d) ==
    /\ d.kind = "json" /\ d.v.t = "obj"
    /\ {"jsonrpc", "id", "result"} \subseteq DOMAIN d.v.o /\ "error" \notin DOMAIN d.v.o
OutId(d) == d.v.o["id"]

\* the request-level failures among the lines: undecodable, unknown method, tools/call
\* arguments missing or invalid, pattern not found in catalog c
LineMethod(l) == l.v.o["method"].s
LineParams(l) == IF "params" \in DOMAIN l.v.o THEN l.v.o["params"] ELSE JNull
LineIsValidCall(l) ==
    /\ LineMethod(l) = "tools/call"
    /\ HasStringName(LineParams(l)) /\ Prefixed(NameOf(LineParams(l)))
    /\ HasStringContent(LineParams(l))
RequestLevelFailure(l, c) ==
    \/ CannotDecode(l)
    \/ LineMethod(l) \notin {"initialize", "tools/list", "tools/call"}
    \/ LineMethod(l) = "tools/call" /\ ~LineIsValidCall(l)
    \/ LineIsValidCall(l) /\ Named(c, Unprefixed(NameOf(LineParams(l)))) = {}

\* output document d answers line l over catalog c
AnswersLine(d, l, c) ==
    IF CannotDecode(l) THEN OutId(d) = JNull /\ OutIsError(d, -32700)
    ELSE /\ OutId(d) = l.v.o["id"]
         /\ LineMethod(l) = "initialize" => OutIsSuccess(d)
         /\ LineMethod(l) = "tools/list" =>
              d = to_string(ToolsListResponse(l.v.o["id"], WholeList(c)))
         /\ LineMethod(l) = "tools/call" =>
              IF LineIsValidCall(l)
              THEN d = to_string(WholeCall(l.v.o["id"], c, Unprefixed(NameOf(LineParams(l))),
                                           ContentOf(LineParams(l))))
              ELSE OutIsError(d, -32603)
         /\ LineMethod(l) \notin {"initialize", "tools/list", "tools/call"} =>
              OutIsError(d, -32601)

IoFailures == {Some("read"), Some("write_all"), Some("write_newline"), Some("flush")}

(***************************************************************************)
(* C11: a non-blank line that is no JSON document, or a JSON object        *)
(* without jsonrpc, id or method, is answered by exactly one error         *)
(* response with id null and code -32700, and handle_request is not called *)
(* for it.                                                                 *)
(***************************************************************************)
C11_DecodeFailureAnswered ==
    \A h \in TransportTasks :
        IsSome(linebuf) /\ CannotDecode(Unwrap(linebuf)) =>
            /\ IsNone(req[h]) /\ ~locked[h] /\ hpc[h] # "reading"
            /\ hpc[h] = "done" =>
                 /\ Unwrap(resp[h]).id = JNull
                 /\ IsErrorWith(Unwrap(resp[h]), -32700)
            /\ tpc \in {"write_newline", "flush"} =>
                 /\ OutId(stdout[Len(Bodies(stdout)) * 2 - 1]) = JNull
                 /\ OutIsError(stdout[Len(Bodies(stdout)) * 2 - 1], -32700)
                 /\ Len(Bodies(stdout)) = Len(NonBlank(taken))

\* the parse error for a JSON object without id has been written
C11_Witness ==
    /\ tpc = "write_newline"
    /\ IsSome(linebuf) /\ Unwrap(linebuf).kind = "json"
    /\ "id" \notin DOMAIN Unwrap(linebuf).v.o
    /\ OutIsError(stdout[Len(stdout)], -32700)

(***************************************************************************)
(* C12: the loop writes exactly one response for each non-blank line read, *)
(* in the order the lines were read: the k-th response written answers the *)
(* k-th non-blank line, and a blank line gets none.                        *)
(***************************************************************************)
C12_OneResponsePerLineInOrder ==
    LET B == Bodies(stdout)
        L == NonBlank(taken)
    IN /\ Len(B) \in {Len(L), Len(L) - 1}
       /\ tpc \in {"read", "write_newline", "flush"} => Len(B) = Len(L)
       /\ \A k \in 1..Len(B) : AnswersLine(B[k], L[k], catalog)

\* two non-blank lines with different ids have been read and answered in order
C12_Witness ==
    /\ tpc = "read"
    /\ Len(Bodies(stdout)) = 2
    /\ Len(NonBlank(taken)) = 2
    /\ OutId(Bodies(stdout)[1]) = JNum(5) /\ OutId(Bodies(stdout)[2]) = JNum(1)

(***************************************************************************)
(* C13: when the loop is about to read a line, every response so far has   *)
(* been written whole, followed by one newline, and flushed; no request is *)
(* in flight then, and never more than one line is unanswered.             *)
(***************************************************************************)
C13_FlushedBeforeNextRead ==
    /\ tpc = "read" =>
         /\ flushed = Len(stdout)
         /\ Len(stdout) = 2 * Len(NonBlank(taken))
         /\ \A h \in Handlers : hpc[h] = "idle" /\ IsNone(req[h])
         /\ IsNone(linebuf)
    /\ \A i \in 1..Len(stdout) :
         IF i % 2 = 1 THEN stdout[i].kind = "json" ELSE stdout[i] = Text("\n")
    /\ Len(NonBlank(taken)) - Len(Bodies(stdout)) <= 1

\* the loop is about to read the second line, the response to the first written and flushed
C13_Witness ==
    /\ tpc = "read" /\ stdin # <<>>
    /\ Len(stdout) = 2 /\ flushed = 2

(***************************************************************************)
(* C14: a request-level failure (undecodable line, unknown method, missing *)
(* or invalid tools/call arguments, pattern not found) does not end the    *)
(* loop: the line is answered by an error envelope unless writing fails,   *)
(* and the loop returns only after the end of input or an I/O failure.     *)
(***************************************************************************)
C14_RequestFailuresNotFatal ==
    /\ [](tpc = "returned" =>
            \/ brk = Some("eof") /\ stdin = <<>>
            \/ brk \in IoFailures)
    /\ [](\A h \in TransportTasks :
            IsSome(linebuf) /\ RequestLevelFailure(Unwrap(linebuf), catalog) /\ hpc[h] = "done" =>
                /\ tpc # "returned" \/ brk \in IoFailures
                /\ IsNone(Unwrap(resp[h]).result) /\ IsSome(Unwrap(resp[h]).error))
    /\ (tpc = "dispatch")
         ~> (\/ tpc = "read" /\ Len(Bodies(stdout)) = Len(NonBlank(taken))
             \/ tpc = "returned" /\ brk \in IoFailures)

\* after an undecodable first line was answered, the loop has read the second line
C14_Witness ==
    /\ Len(NonBlank(taken)) = 2
    /\ CannotDecode(NonBlank(taken)[1])
    /\ OutIsError(Bodies(stdout)[1], -32700)
    /\ tpc = "dispatch"

(***************************************************************************)
(* C15 (as claimed): when reading a line, writing a response or flushing   *)
(* fails, the loop stops and run_stdio_server returns an error.            *)
(***************************************************************************)
C15_IoFailureReturnsError ==
    tpc = "returned" /\ brk \in IoFailures => IsSome(ret) /\ ~Unwrap(ret).ok

(***************************************************************************)
(* C16: at the end of input the loop ends and run_stdio_server returns     *)
(* Ok(()), every non-blank line of the input answered and flushed; over    *)
(* every input stream the loop eventually returns.                         *)
(***************************************************************************)
C16_EofTerminatesNormally ==
    /\ <>(tpc = "returned")
    /\ [](tpc = "returned" /\ brk = Some("eof") =>
            /\ ret = Some(Ok("unit"))
            /\ stdin = <<>>
            /\ Len(Bodies(stdout)) = Len(NonBlank(taken))
            /\ flushed = Len(stdout)
            /\ \A k \in 1..Len(Bodies(stdout)) :
                 AnswersLine(Bodies(stdout)[k], NonBlank(taken)[k], catalog))

\* the loop has returned at the end of a stream of two non-blank lines, both answered
C16_Witness ==
    /\ tpc = "returned" /\ brk = Some("eof")
    /\ Len(NonBlank(taken)) = 2 /\ Len(Bodies(stdout)) = 2

(***************************************************************************)
(* Vocabulary of the lock properties.                                      *)
(***************************************************************************)
\* task t waits in the queue of the lock for read access; the place where it waits
WaitsToRead(t) == \E k \in 1..Len(lock.q) : lock.q[k] = <<t, "r">>
PlaceOf(t) == CHOOSE k \in 1..Len(lock.q) : lock.q[k][1] = t
\* a writer waits ahead of place k
WriterAhead(k) == \E j \in 1..(k - 1) : lock.q[j][2] = "w"

(***************************************************************************)
(* C17 (as claimed): a reader's acquisition of read access blocks only     *)
(* while a writer holds the slot.                                          *)
(***************************************************************************)
C17_BlocksOnlyWhileWriterHolds ==
    \A h \in Handlers : WaitsToRead(h) => lock.w # {}

(***************************************************************************)
(* C17 (amended): any number of readers hold read access at the same time; *)
(* a reader waits only while a writer holds the slot or a writer waits for *)
(* it ahead of the reader (the lock is fair), never when only readers are  *)
(* present; readers and a writer never hold the slot together.             *)
(***************************************************************************)
C17_BlocksOnlyBehindWriter ==
    /\ \A h \in Handlers : WaitsToRead(h) => lock.w # {} \/ WriterAhead(PlaceOf(h))
    /\ lock.w = {} \/ lock.r = {}
    /\ Cardinality(lock.w) <= 1
    /\ \A h \in Handlers : hpc[h] = "reading" => h \in lock.r \/ WaitsToRead(h)

\* one reader holds read access, a reload waits for it, and a second reader waits behind
\* the reload while no writer holds the slot
C17_Witness ==
    \E h1 \in Handlers, h2 \in Handlers :
        /\ h1 \in lock.r
        /\ WaitsToRead(h2)
        /\ lock.w = {}
        /\ WriterAhead(PlaceOf(h2))

(***************************************************************************)
(* Vocabulary of the ingestion properties.                                 *)
(***************************************************************************)
\* the entries of directory state d that are subdirectories with a readable system.md
WithPrimaryContent(d) ==
    SelectSeq(d.entries, LAMBDA e : e.kind = "dir" /\ IsSome(e.system))
\* those among them whose name is valid UTF-8 and whose metadata can be read
Loadable(d) ==
    SelectSeq(d.entries, LAMBDA e : e.kind = "dir" /\ IsSome(e.system) /\ IsSome(e.name) /\ e.meta)
\* some subdirectory of d lacks a readable system.md
SomeLackPrimaryContent(d) ==
    \E i \in 1..Len(d.entries) : d.entries[i].kind = "dir" /\ IsNone(d.entries[i].system)
\* the root can be read and every entry enumerated and typed
Enumerable(d) ==
    d.root /\ \A i \in 1..Len(d.entries) : d.entries[i].kind \in {"dir", "file"}

\* a step in which load_all runs over LoaderDir: at construction, or in a reload
LoadsAtConstruction == spc = "resolved" /\ spc' # "resolved"
LoadsInReload(r) == rpc[r] = "idle" /\ rpc'[r] # "idle"

(***************************************************************************)
(* C18 (as claimed): an ingestion run over a root some of whose            *)
(* subdirectories lack a readable system.md succeeds and returns exactly   *)
(* one Pattern for each subdirectory that has readable primary content.    *)
(***************************************************************************)
C18_OnePatternPerReadablePrimary ==
    [][LoadsAtConstruction /\ LoaderDir.root /\ SomeLackPrimaryContent(LoaderDir) =>
          /\ spc' = "up"
          /\ Len(catalog') = Len(WithPrimaryContent(LoaderDir))]_vars

(***************************************************************************)
(* C18 (amended): an ingestion run over a root that can be enumerated,     *)
(* some of whose subdirectories lack a readable system.md, succeeds and    *)
(* returns, in directory order, exactly one Pattern for each subdirectory  *)
(* that has readable primary content, a UTF-8 name and readable metadata,  *)
(* named after that subdirectory; every other candidate is skipped without *)
(* aborting the batch.                                                     *)
(***************************************************************************)
C18_OnePatternPerLoadableDirectory ==
    /\ [][LoadsAtConstruction /\ Enumerable(LoaderDir) =>
            /\ spc' = "up" /\ sres' = Some(Ok("server"))
            /\ Len(catalog') = Len(Loadable(LoaderDir))
            /\ \A i \in 1..Len(catalog') :
                 /\ catalog'[i].name = Unwrap(Loadable(LoaderDir)[i].name)
                 /\ catalog'[i].system_prompt = Unwrap(Loadable(LoaderDir)[i].system)]_vars
    /\ [][\A r \in Reloaders : LoadsInReload(r) /\ Enumerable(LoaderDir) =>
            /\ rpc'[r] = "scanned"
            /\ Len(batch'[r]) = Len(Loadable(LoaderDir))
            /\ \A i \in 1..Len(batch'[r]) :
                 batch'[r][i].name = Unwrap(Loadable(LoaderDir)[i].name)]_vars

\* a root with one valid subdirectory and one without system.md gave a one-element catalog
C18_Witness ==
    /\ spc = "up"
    /\ LoaderDir.entries = <<DirANoSystem, DirB>>
    /\ Len(catalog) = 1 /\ catalog[1].name = "b"

(***************************************************************************)
(* C19: root resolution probes the submodule location, then (HOME being    *)
(* set) the user's location, and selects the first that exists; if none    *)
(* exists it fails with the error that lists every location tried, in      *)
(* order.                                                                  *)
(***************************************************************************)
C19_FirstExistingCandidate ==
    [][spc = "new" /\ spc' # "new" =>
          IF fs.sub.root
          THEN spc' = "resolved" /\ loader' = Some("data/fabric/data/patterns")
          ELSE IF IsSome(fs.home) /\ fs.user.root
          THEN spc' = "resolved" /\ loader' = Some(Unwrap(fs.home) \o "/.config/fabric/patterns")
          ELSE /\ spc' = "failed" /\ loader' = None
               /\ sres' = Some(Err([kind |-> "PatternDirectoryNotFound",
                                    locations |->
                                       IF IsSome(fs.home)
                                       THEN <<"data/fabric/data/patterns",
                                              Unwrap(fs.home) \o "/.config/fabric/patterns">>
                                       ELSE <<"data/fabric/data/patterns">>]))]_vars

\* both locations exist and the submodule location was selected
C19_Witness ==
    /\ spc = "resolved"
    /\ fs.sub.root /\ IsSome(fs.home) /\ fs.user.root
    /\ loader = Some("data/fabric/data/patterns")

(***************************************************************************)
(* C20 (as claimed): when construction failed because no candidate root    *)
(* existed, a reload triggered after a location has appeared succeeds.     *)
(***************************************************************************)
C20_ReloadAfterFailedStartup ==
    spc = "failed" /\ loader = None /\ fs.sub.root /\ Load(fs.sub).ok =>
        \E r \in Reloaders :
            ENABLED (rpc[r] = "idle" /\ ReloadScan(r, fs.sub) /\ UNCHANGED envVars /\ Reloadable)

(***************************************************************************)
(* C20 (amended): if no candidate root location exists at startup, server  *)
(* construction fails and leaves no server on which a reload could be      *)
(* triggered, whatever appears later; on a constructed server a reload     *)
(* that fails leaves the Catalog as it was and is not fatal: a reload      *)
(* triggered once the resolved root can be read again succeeds and         *)
(* populates the Catalog.                                                  *)
(***************************************************************************)
C20_ReloadNeedsConstructedServer ==
    /\ [](spc = "failed" =>
            /\ IsSome(sres) /\ ~Unwrap(sres).ok
            /\ catalog = <<>>
            /\ \A r \in Reloaders :
                 /\ rpc[r] = "idle"
                 /\ ~ENABLED StartupReloadScan(r)
                 /\ ~ENABLED StartupReloadScanFails(r))
    /\ [](spc = "up" =>
            \A r \in Reloaders :
                rpc[r] = "idle" =>
                    IF Load(LoaderDir).ok THEN ENABLED StartupReloadScan(r)
                    ELSE ENABLED StartupReloadScanFails(r))
    /\ [][\A r \in Reloaders :
            /\ rpc'[r] = "returned" /\ rpc[r] = "idle" => catalog' = catalog /\ ~Unwrap(rres'[r]).ok
            /\ rpc'[r] = "returned" /\ rpc[r] = "locking" => catalog' = batch[r] /\ Unwrap(rres'[r]).ok]_vars

\* construction failed for want of a root, and a candidate location has appeared since
C20_Witness ==
    /\ spc = "failed" /\ loader = None
    /\ IsSome(sres) /\ ~Unwrap(sres).ok
    /\ resolve_patterns_dir(fs).ok

(***************************************************************************)
(* Vocabulary of the search property.                                      *)
(***************************************************************************)
\* characters c and d are the same letter up to case
SameLetter(c, d) == c = d \/ {c, d} \in {{"a", "A"}, {"b", "B"}}
\* q occurs in s when case is ignored
OccursIgnoringCase(q, s) ==
    \E i \in 0..(Len(s) - Len(q)) :
        \A k \in 1..Len(q) : SameLetter(SubSeq(q, k, k), SubSeq(s, i + k, i + k))

(***************************************************************************)
(* C21: matches(query) is true iff the query occurs, case ignored, in the  *)
(* name, or in the description, or in some tag, or in the category; a      *)
(* Pattern without category gets no match from it.                         *)
(***************************************************************************)
C21_MatchesIffSubstring ==
    called = "matches" /\ IsSome(called_ret) =>
        LET p == called_arg.pattern
            q == called_arg.query
        IN Unwrap(called_ret) <=>
               \/ OccursIgnoringCase(q, p.name)
               \/ OccursIgnoringCase(q, p.description)
               \/ \E k \in 1..Len(p.tags) : OccursIgnoringCase(q, p.tags[k])
               \/ IsSome(p.category) /\ OccursIgnoringCase(q, Unwrap(p.category))

\* an upper-case query matched through the category alone
C21_Witness ==
    /\ called = "matches" /\ called_ret = Some(TRUE)
    /\ called_arg.query = "AA"
    /\ called_arg.pattern.name = "b" /\ called_arg.pattern.category = Some("aA")

(***************************************************************************)
(* C22: serializing and then deserializing a success response, whatever    *)
(* its id and its result (a null result included), gives a response with   *)
(* an equal id and an equal result, and the serialized form has no error   *)
(* field; the serialized form of an error response has no result field.    *)
(***************************************************************************)
C22_RoundTripKeepsIdAndResult ==
    called = "round_trip" /\ IsSome(called_ret) =>
        LET sent == called_arg
            fields == DOMAIN Unwrap(called_wire).v.o
            back == Unwrap(called_ret)
        IN /\ IsSome(sent.result) /\ IsNone(sent.error) =>
                /\ "error" \notin fields
                /\ back.ok
                /\ back.v.id = sent.id
                /\ back.v.result = sent.result
           /\ IsNone(sent.result) /\ IsSome(sent.error) => "result" \notin fields

\* every pattern of ps has the name and the system.md text of a subdirectory of d
ReadFrom(ps, d) ==
    \A i \in 1..Len(ps) :
        \E k \in 1..Len(d.entries) :
            /\ d.entries[k].kind = "dir"
            /\ d.entries[k].name = Some(ps[i].name)
            /\ d.entries[k].system = Some(ps[i].system_prompt)

(***************************************************************************)
(* C23 (as claimed): every Pattern in the Catalog has its primary content  *)
(* present and non-empty.                                                  *)
(***************************************************************************)
C23_PrimaryContentNonEmpty ==
    \A i \in 1..Len(catalog) : catalog[i].system_prompt # ""

(***************************************************************************)
(* C23 (amended): every Pattern an ingestion run puts in the Catalog (at   *)
(* construction) or in a reload's batch carries, as its primary content,   *)
(* the text read from the system.md of a subdirectory of that name, which  *)
(* may be the empty string; a candidate directory whose primary content is *)
(* absent never yields a Pattern.                                          *)
(***************************************************************************)
C23_PrimaryContentPresent ==
    /\ [][LoadsAtConstruction /\ spc' = "up" => ReadFrom(catalog', LoaderDir)]_vars
    /\ [][\A r \in Reloaders :
            LoadsInReload(r) /\ rpc'[r] = "scanned" => ReadFrom(batch'[r], LoaderDir)]_vars
    /\ [][catalog' # catalog =>
            \/ LoadsAtConstruction
            \/ \E r \in Reloaders : rpc[r] = "locking" /\ catalog' = batch[r]]_vars

\* a Catalog built from a root with an empty system.md holds a Pattern with empty primary content
C23_Witness ==
    /\ spc = "up"
    /\ LoaderDir.entries = <<DirEmptySystem, DirB>>
    /\ Len(catalog) = 2
    /\ catalog[1].name = "e" /\ catalog[1].system_prompt = ""

(***************************************************************************)
(* Vocabulary of the params property.                                      *)
(***************************************************************************)
\* line l is a request object that has the required fields and no params
OmitsParams(l) ==
    /\ l.kind = "json" /\ l.v.t = "obj"
    /\ {"jsonrpc", "id", "method"} \subseteq DOMAIN l.v.o /\ "params" \notin DOMAIN l.v.o
    /\ l.v.o["jsonrpc"].t = "str" /\ l.v.o["method"].t = "str"
\* the same request with params {}
WithEmptyParams(l) ==
    [kind |-> "json",
     v |-> [t |-> "obj",
            o |-> [k \in DOMAIN l.v.o \cup {"params"} |->
                      IF k = "params" THEN [t |-> "obj", o |-> <<>>] ELSE l.v.o[k]]]]

(***************************************************************************)
(* C24 (as claimed): a request line that omits params decodes with params  *)
(* equal to the empty object.                                              *)
(***************************************************************************)
C24_OmittedParamsEmptyObject ==
    \A h \in TransportTasks :
        IsSome(linebuf) /\ OmitsParams(Unwrap(linebuf)) /\ IsSome(req[h]) =>
            Unwrap(req[h]).params = [t |-> "obj", o |-> <<>>]

(***************************************************************************)
(* C24 (amended): a request line that omits params decodes successfully,   *)
(* with params null, and the response written for it is the response       *)
(* written for the same request with params {}.                            *)
(***************************************************************************)
C24_OmittedParamsNullDispatchedAsEmpty ==
    /\ IsSome(linebuf) /\ OmitsParams(Unwrap(linebuf)) =>
          /\ Decoded.ok
          /\ Decoded.v.params = [t |-> "null"]
          /\ \A h \in TransportTasks : IsSome(req[h]) => Unwrap(req[h]) = Decoded.v
    /\ \A i, j \in 1..Len(Bodies(stdout)) :
          /\ OmitsParams(NonBlank(taken)[i])
          /\ NonBlank(taken)[j] = WithEmptyParams(NonBlank(taken)[i])
          => Bodies(stdout)[i] = Bodies(stdout)[j]

\* tools/call without params and tools/call with params {} were both answered, alike
C24_Witness ==
    /\ tpc = "read" /\ Len(Bodies(stdout)) = 2
    /\ NonBlank(taken) = <<BareRequestLine(JNum(6), "tools/call"),
                           RequestLine(JNum(6), "tools/call", EmptyObj)>>
    /\ OutIsError(Bodies(stdout)[1], INTERNAL_ERROR)
    /\ Bodies(stdout)[2] = Bodies(stdout)[1]

(***************************************************************************)
(* C25: when the next input line is empty after trimming white space, the  *)
(* step that reads it writes no response and does not call the Dispatcher; *)
(* unless the read itself fails, the line is consumed and the loop is      *)
(* again about to read.                                                    *)
(***************************************************************************)
C25_BlankLineSkipped ==
    [][tpc = "read" /\ stdin # <<>> /\ WhiteSpaceOnly(Head(stdin)) =>
          /\ stdout' = stdout /\ flushed' = flushed
          /\ hpc' = hpc /\ req' = req /\ resp' = resp /\ locked' = locked
          /\ linebuf' = None
          /\ \/ tpc' = "returned" /\ brk' = Some("read") /\ stdin' = stdin
             \/ tpc' = "read" /\ brk' = None /\ ret' = None /\ stdin' = Tail(stdin)]_vars

\* a blank line was read, then the next line was read and answered
C25_Witness ==
    /\ tpc = "read"
    /\ taken = <<Text("  \n"), RequestLine(JNum(1), "initialize", EmptyObj)>>
    /\ Len(Bodies(stdout)) = 1
    /\ OutIsSuccess(Bodies(stdout)[1])

(***************************************************************************)
(* Vocabulary of the reload properties.                                    *)
(***************************************************************************)
\* task t holds the slot or waits for it
InLock(t) == t \in lock.r \/ t \in lock.w \/ \E k \in 1..Len(lock.q) : lock.q[k][1] = t
\* handler h asks for read access in this step
AsksToRead(h) == hpc[h] = "idle" /\ hpc'[h] = "reading"

C27_CatalogChangesOnlyByReload ==
    /\ [][catalog' # catalog =>
            \E r \in Reloaders :
                /\ rpc[r] = "locking" /\ rpc'[r] = "returned"
                /\ rres'[r] = Some(Ok("unit"))
                /\ catalog' = batch[r]
                /\ handlerVars' = handlerVars]_vars
    /\ [][handlerVars' # handlerVars => catalog' = catalog]_vars
    /\ [][\A r \in Reloaders :
            IsNone(rres[r]) /\ IsSome(rres'[r]) /\ ~Unwrap(rres'[r]).ok => catalog' = catalog]_vars
    /\ [](\E d \in DiskStates : Load(d).ok /\ catalog = Load(d).v)

\* a reload replaced the two-pattern Catalog a finished request had read by a one-pattern one
C27_Witness ==
    \E r \in Reloaders, h \in TransportTasks :
        /\ rpc[r] = "returned" /\ rres[r] = Some(Ok("unit"))
        /\ hpc[h] = "done" /\ IsSome(snap[h]) /\ Len(Unwrap(snap[h])) = 2
        /\ Len(catalog) = 1

(***************************************************************************)
(* Vocabulary of the absorption property.                                  *)
(***************************************************************************)
\* entry e is a candidate subdirectory that fails on its own: unreadable primary
\* content, unreadable metadata, unusable name
CandidateFails(e) == e.kind = "dir" /\ (IsNone(e.system) \/ ~e.meta \/ IsNone(e.name))
\* entry e is a candidate subdirectory that does not fail
CandidateLoads(e) == e.kind = "dir" /\ IsSome(e.system) /\ e.meta /\ IsSome(e.name)
\* the type of entry e cannot be determined
TypeFails(e) == e.kind = "typeerr"
\* the batch ps holds a pattern built from entry e
BuiltFrom(ps, e) ==
    \E i \in 1..Len(ps) : Some(ps[i].name) = e.name /\ Some(ps[i].system_prompt) = e.system
\* the batch ps absorbed the failing candidates of directory d and holds the others
Absorbed(ps, d) ==
    /\ \A k \in 1..Len(d.entries) : CandidateLoads(d.entries[k]) => BuiltFrom(ps, d.entries[k])
    /\ Len(ps) = Cardinality({k \in 1..Len(d.entries) : CandidateLoads(d.entries[k])})
\* every entry of d is enumerated, and some entry's type cannot be determined
SomeTypeFails(d) ==
    /\ d.root
    /\ \A k \in 1..Len(d.entries) : d.entries[k].kind # "enumerr"
    /\ \E k \in 1..Len(d.entries) : TypeFails(d.entries[k])

(***************************************************************************)
(* C28 (as claimed): no failure confined to one directory entry, an entry  *)
(* whose type cannot be determined included, makes an ingestion run return *)
(* an error.                                                               *)
(***************************************************************************)
C28_EntryFailuresNeverEscape ==
    [][LoadsAtConstruction /\ LoaderDir.root
         /\ (\A k \in 1..Len(LoaderDir.entries) : LoaderDir.entries[k].kind # "enumerr")
         => spc' = "up"]_vars

(***************************************************************************)
(* C28 (amended): no failure confined to one candidate subdirectory        *)
(* (unreadable primary content, unreadable metadata or timestamp, unusable *)
(* name) makes an ingestion run return an error: that entry is skipped and *)
(* the other entries are still ingested; an entry whose type cannot be     *)
(* determined makes the run return an error.                               *)
(***************************************************************************)
C28_CandidateFailuresAbsorbed ==
    /\ [][LoadsAtConstruction /\ Enumerable(LoaderDir) =>
            spc' = "up" /\ Absorbed(catalog', LoaderDir)]_vars
    /\ [][\A r \in Reloaders : LoadsInReload(r) /\ Enumerable(LoaderDir) =>
            rpc'[r] = "scanned" /\ Absorbed(batch'[r], LoaderDir)]_vars
    /\ [][LoadsAtConstruction /\ SomeTypeFails(LoaderDir) =>
            spc' = "failed" /\ IsSome(sres') /\ ~Unwrap(sres').ok /\ catalog' = catalog]_vars
    /\ [][\A r \in Reloaders : LoadsInReload(r) /\ SomeTypeFails(LoaderDir) =>
            rpc'[r] = "returned" /\ ~Unwrap(rres'[r]).ok /\ catalog' = catalog]_vars

\* a subdirectory whose metadata cannot be read was skipped and the other one ingested
C28_Witness ==
    /\ spc = "up"
    /\ LoaderDir.entries = <<DirNoMeta, DirB>>
    /\ CandidateFails(LoaderDir.entries[1])
    /\ Len(catalog) = 1 /\ catalog[1].name = "b"

(***************************************************************************)
(* Vocabulary of the metadata rules.                                       *)
(***************************************************************************)
\* c and d are the same letter in either case
SameLetterAnyCase(c, d) ==
    c = d \/ \E k \in 1..Len(UpperCase) : {c, d} = {UpperCase[k], LowerCase[k]}
\* keyword w occurs in content s when case is ignored
KeywordOccurs(w, s) ==
    \E i \in 0..(Len(s) - Len(w)) :
        \A k \in 1..Len(w) : SameLetterAnyCase(SubSeq(w, k, k), SubSeq(s, i + k, i + k))
\* the rule groups in their fixed order: the tag, the keywords, whether the group sets a category
RuleGroups ==
    << [tag |-> "security", keywords |-> {"security", "threat", "vulnerability"}, sets |-> TRUE],
       [tag |-> "writing", keywords |-> {"writing", "essay", "article"}, sets |-> TRUE],
       [tag |-> "coding", keywords |-> {"code", "programming", "software"}, sets |-> TRUE],
       [tag |-> "analysis", keywords |-> {"analyze", "analysis", "extract"}, sets |-> FALSE],
       [tag |-> "summarization", keywords |-> {"summarize", "summary"}, sets |-> FALSE] >>
\* rule group g matches content s
GroupMatches(g, s) == \E w \in RuleGroups[g].keywords : KeywordOccurs(w, s)
\* the category-setting groups that match content s
CategoryMatches(s) == {g \in 1..Len(RuleGroups) : RuleGroups[g].sets /\ GroupMatches(g, s)}
\* the metadata extracted from the content called with
Extracted == Unwrap(called_ret)

(***************************************************************************)
(* C29: the category is that of the first matching rule among security,    *)
(* writing, coding, each tested against the content with case ignored; a   *)
(* later matching rule adds its tag and leaves the category; the analysis  *)
(* and summarization rules add tags only; when none of the three matches   *)
(* the category is absent.                                                 *)
(***************************************************************************)
C29_CategoryFirstMatchWins ==
    called = "extract_metadata" /\ IsSome(called_ret) =>
        LET cm == CategoryMatches(called_arg)
        IN /\ cm = {} <=> IsNone(Extracted.category)
           /\ cm # {} =>
                LET first == CHOOSE g \in cm : \A h \in cm : g <= h
                IN /\ Extracted.category = Some(RuleGroups[first].tag)
                   /\ \A h \in cm : \E k \in 1..Len(Extracted.tags) :
                          Extracted.tags[k] = RuleGroups[h].tag
           /\ \A g \in 1..Len(RuleGroups) :
                ~RuleGroups[g].sets => Extracted.category # Some(RuleGroups[g].tag)

\* security and coding both matched, with the coding keyword first in the content:
\* the category is security and both tags are there
C29_Witness ==
    /\ called = "extract_metadata" /\ IsSome(called_ret)
    /\ called_arg = "\nSOFTWARE Article\nAnalyze security threats and vulnerabilities"
    /\ CategoryMatches(called_arg) = {1, 2, 3}
    /\ Extracted.category = Some("security")
    /\ Extracted.tags = <<"analysis", "coding", "security", "writing">>

(***************************************************************************)
(* C30: the tags extracted are exactly the tags of the rule groups that    *)
(* match the content, none twice, in sorted order.                         *)
(***************************************************************************)
C30_TagsExactSortedUnique ==
    called = "extract_metadata" /\ IsSome(called_ret) =>
        LET tags == Extracted.tags
        IN /\ {tags[k] : k \in 1..Len(tags)}
                = {RuleGroups[g].tag : g \in {h \in 1..Len(RuleGroups) : GroupMatches(h, called_arg)}}
           /\ \A j, k \in 1..Len(tags) : j < k => tags[j] # tags[k] /\ StrLess(tags[j], tags[k])

\* the rules fired in the order writing, analysis, summarization and the tags came out sorted
C30_Witness ==
    /\ called = "extract_metadata" /\ IsSome(called_ret)
    /\ called_arg = "\nHelp with writing essays and articles\nSummarize content and extract key points"
    /\ Extracted.tags = <<"analysis", "summarization", "writing">>

(***************************************************************************)
(* Vocabulary of the description rules.                                    *)
(***************************************************************************)
\* the lines of the content called with, and the description extracted from it
ContentLinesOf == Lines(called_arg)
Described == called = "extract_description" /\ IsSome(called_ret)
\* line l holds a recognised marker
HoldsMarker(l) ==
    \E m \in {"# IDENTITY", "# PURPOSE"} :
        \E i \in 0..(Len(l) - Len(m)) : SubSeq(l, i + 1, i + Len(m)) = m
\* line l is, trimmed, neither empty nor a header
DescriptionLine(l) == Trim(l) # "" /\ SubSeq(Trim(l), 1, 1) # "#"
\* the lines that hold a marker and are followed by a description line
MarkersWithDescription ==
    {i \in 1..Len(ContentLinesOf) :
        /\ HoldsMarker(ContentLinesOf[i])
        /\ \E j \in (i + 1)..Len(ContentLinesOf) : DescriptionLine(ContentLinesOf[j])}
\* the smallest member of a non-empty set of numbers
Least(S) == CHOOSE i \in S : \A j \in S : i <= j

FallsBack == MarkersWithDescription = {}
\* the first contiguous run of lines that are non-empty and not headers
FirstParagraph ==
    LET ls == ContentLinesOf
        starts == {k \in 1..Len(ls) : DescriptionLine(ls[k])}
    IN IF starts = {} THEN <<>>
       ELSE LET a == Least(starts)
                b == Least({k \in a..Len(ls) : k = Len(ls) \/ ~DescriptionLine(ls[k + 1])})
            IN SubSeq(ls, a, b)

(***************************************************************************)
(* C32 (as claimed): the fallback description is used only when no line of *)
(* the content holds a marker; it is the first contiguous paragraph of     *)
(* non-empty, non-header lines, so it holds no header line, cut to at most *)
(* 200 characters.                                                         *)
(***************************************************************************)
C32_FallbackParagraphWithoutHeader ==
    Described /\ FallsBack =>
        /\ \A k \in 1..Len(ContentLinesOf) : ~HoldsMarker(ContentLinesOf[k])
        /\ Unwrap(called_ret) = TakeChars(Join(FirstParagraph, " "), DESCRIPTION_MAX_CHARS)
        /\ Len(Unwrap(called_ret)) <= DESCRIPTION_MAX_CHARS

(***************************************************************************)
(* Vocabulary of the failed reload.                                        *)
(***************************************************************************)
\* reload r has returned an error
ReloadFailed(r) == rpc[r] = "returned" /\ IsSome(rres[r]) /\ ~Unwrap(rres[r]).ok
\* reload r returns an error in this step
ReloadFails(r) == rres[r] = None /\ IsSome(rres'[r]) /\ ~Unwrap(rres'[r]).ok
\* request h was answered from the catalog in the slot
ServedFromSlot(h) == hpc[h] = "done" /\ locked[h] /\ snap[h] = Some(catalog)

(***************************************************************************)
(* C33: when the ingestion run of a reload fails, reload_patterns returns  *)
(* that error without having asked for or held exclusive access, and the   *)
(* catalog keeps the contents it had, which requests are still served.     *)
(***************************************************************************)
C33_FailedReloadKeepsCatalog ==
    /\ [][\A r \in Reloaders : ReloadFails(r) =>
            /\ rpc[r] = "idle" /\ ~InLock(r)
            /\ rpc'[r] = "returned"
            /\ catalog' = catalog /\ lock' = lock]_vars
    /\ [](\A r \in Reloaders : ReloadFailed(r) => ~InLock(r))
    /\ [](\A r \in Reloaders : InLock(r) => rpc[r] = "locking")

\* a reload has returned an error and a request was then served from the catalog
\* of before the reload
C33_Witness ==
    \E r \in Reloaders, h \in Handlers :
        /\ ReloadFailed(r)
        /\ Len(catalog) > 0
        /\ ServedFromSlot(h)
        /\ Rs(h).result # None

(***************************************************************************)
(* Vocabulary of overlapping reloads.                                      *)
(***************************************************************************)
\* reload r replaces the slot in this step
Swaps(r) == rpc[r] = "locking" /\ rpc'[r] = "returned"
\* every reload has completed
ReloadsCompleted == \A r \in Overlapping : rpc[r] \in {"idle", "returned"}

(***************************************************************************)
(* C34 (as claimed): when two reloads overlap, after both have completed   *)
(* the catalog holds the batch of the reload that scanned later: a batch   *)
(* scanned earlier never overwrites a batch scanned later.                 *)
(***************************************************************************)
C34_LaterScanWins == ReloadsCompleted => ~scans.stale

(***************************************************************************)
(* C34 (amended): when two reloads overlap, after both have completed the  *)
(* catalog holds the batch of the reload that was granted exclusive access *)
(* last, whichever of them scanned later: a batch scanned earlier does     *)
(* overwrite a batch scanned later when its reload is granted exclusive    *)
(* access after the other's.                                               *)
(***************************************************************************)
C34_LastSwapWins ==
    /\ [][\A r \in Overlapping : Swaps(r) => r \in lock.w /\ catalog' = batch[r]]_vars
    /\ [][catalog' # catalog => \E r \in Overlapping : Swaps(r)]_vars
    /\ [][\A r \in Overlapping : Swaps(r) /\ r \in scans.overtaken => scans'.stale]_vars

\* both reloads have completed and the one that scanned first swapped last: the
\* catalog holds the one pattern it scanned, not the two patterns scanned after it
C34_Witness ==
    /\ \A r \in Overlapping : rpc[r] = "returned" /\ rres[r] = Some(Ok("unit"))
    /\ scans.stale
    /\ Len(catalog) = 1

(***************************************************************************)
(* Vocabulary of progress around the lock.                                 *)
(***************************************************************************)
\* task t waits in the queue of the lock
Waits(t) == \E k \in 1..Len(lock.q) : lock.q[k][1] = t
\* reload r has asked for exclusive access and not yet returned
PendingReload(r) == rpc[r] = "locking"

(***************************************************************************)
(* C35: a handler that acquired read access has released it on every      *)
(* return path, the pattern-not-found path included, before its response   *)
(* is returned; hence a pending reload eventually acquires exclusive       *)
(* access, swaps and releases, and no reachable state of readers and       *)
(* reloads is a deadlock.                                                  *)
(***************************************************************************)
C35_ReadersReleaseReloadProceeds ==
    /\ [](\A h \in Handlers : hpc[h] # "reading" => ~InLock(h))
    /\ [](\A r \in ProgressReloaders : ~PendingReload(r) => ~InLock(r))
    /\ \A r \in ProgressReloaders : PendingReload(r) ~> (rpc[r] = "returned" /\ ~InLock(r))
    /\ [](\A h \in Handlers : h \in lock.r => ENABLED ReaderStep(h))
    /\ [](\A r \in ProgressReloaders : r \in lock.w => ENABLED (ReloadSwap(r) /\ UNCHANGED envVars))
    /\ [](lock.q # <<>> => lock.r # {} \/ lock.w # {})

\* a reload that waited holds exclusive access right after a tools/call left by the
\* pattern-not-found path, while another request waits behind it
C35_Witness ==
    \E r \in ProgressReloaders, h1 \in Handlers, h2 \in Handlers :
        /\ PendingReload(r) /\ r \in lock.w
        /\ hpc[h1] = "done" /\ locked[h1] /\ IsErrorWith(Rs(h1), INTERNAL_ERROR)
        /\ Waits(h2)

(***************************************************************************)
(* Vocabulary of the defects of a tools/call.                              *)
(***************************************************************************)
\* member k of the params of request rq, None when there is none
Param(rq, k) == IF rq.params.t = "obj" /\ k \in DOMAIN rq.params.o THEN Some(rq.params.o[k]) ELSE None
\* value v is a string
IsStr(v) == v.t = "str"
HasName(rq) == IsSome(Param(rq, "name")) /\ IsStr(Unwrap(Param(rq, "name")))
NameGiven(rq) == Unwrap(Param(rq, "name")).s
HasPrefix(rq) == HasName(rq) /\ Len(NameGiven(rq)) >= 7 /\ SubSeq(NameGiven(rq), 1, 7) = "fabric_"
HasContent(rq) ==
    /\ IsSome(Param(rq, "arguments"))
    /\ Unwrap(Param(rq, "arguments")).t = "obj"
    /\ "content" \in DOMAIN Unwrap(Param(rq, "arguments")).o
    /\ IsStr(Unwrap(Param(rq, "arguments")).o["content"])
\* rq is a tools/call that fails validation, or a request of an unknown method
IsToolsCall(rq) == rq.method = "tools/call"
FailsValidation(rq) == IsToolsCall(rq) /\ ~(HasName(rq) /\ HasPrefix(rq) /\ HasContent(rq))
UnknownMethod(rq) == rq.method \notin {"initialize", "tools/list", "tools/call"}
\* handler h takes request rq in this step
Takes(h, rq) == hpc[h] = "idle" /\ req'[h] = Some(rq)

(***************************************************************************)
(* C36: a tools/call that fails validation (missing name, invalid prefix,  *)
(* missing content) and a request of an unknown method are answered        *)
(* without asking for catalog access, so they are answered also while a    *)
(* reload holds exclusive access.                                          *)
(***************************************************************************)
C36_DefectsAnsweredWithoutCatalog ==
    /\ [][\A h \in TransportTasks, rq \in DefectRequests :
            Takes(h, rq) /\ (FailsValidation(rq) \/ UnknownMethod(rq)) =>
                /\ hpc'[h] = "done" /\ IsSome(resp'[h]) /\ IsSome(Unwrap(resp'[h]).error)
                /\ lock' = lock /\ ~locked'[h]]_vars
    /\ [](\A h \in TransportTasks :
            Answered(h) /\ (FailsValidation(Rq(h)) \/ UnknownMethod(Rq(h))) =>
                ~locked[h] /\ ~InLock(h))
    /\ [](\A h \in TransportTasks, rq \in DefectRequests :
            hpc[h] = "idle" /\ FailsValidation(rq) =>
                ENABLED (ToolsCallInvalid(h, rq) /\ UNCHANGED envVars))
    /\ [](\A h \in TransportTasks, rq \in DefectRequests :
            hpc[h] = "idle" /\ UnknownMethod(rq) =>
                ENABLED (MethodNotFound(h, rq) /\ UNCHANGED envVars))

\* a reload holds exclusive access and a tools/call without content has its answer
C36_Witness ==
    \E r \in Reloaders, h \in TransportTasks :
        /\ r \in lock.w
        /\ Answered(h) /\ IsToolsCall(Rq(h)) /\ HasPrefix(Rq(h)) /\ ~HasContent(Rq(h))
        /\ IsErrorWith(Rs(h), INTERNAL_ERROR)
        /\ ~locked[h]

\* the catalog request h read holds no pattern named as rq asks
NoSuchPattern(h, rq) ==
    /\ IsSome(snap[h])
    /\ \A i \in 1..Len(Unwrap(snap[h])) :
          Unwrap(snap[h])[i].name # SubSeq(NameGiven(rq), 8, Len(NameGiven(rq)))
\* request h was answered by an error of this message alone
OnlyError(h, message) ==
    IsNone(Rs(h).result) /\ IsSome(Rs(h).error) /\ Unwrap(Rs(h).error).message = message

(***************************************************************************)
(* C37: the checks of tools/call are ordered: a missing name is reported   *)
(* before an invalid prefix, an invalid prefix before missing content,     *)
(* missing content before pattern-not-found; a request with several        *)
(* defects gets the error of the first check that applies and no other.    *)
(***************************************************************************)
C37_ValidationOrdered ==
    \A h \in TransportTasks :
        Answered(h) /\ IsToolsCall(Rq(h)) =>
            /\ ~HasName(Rq(h)) => OnlyError(h, "Missing tool name")
            /\ HasName(Rq(h)) /\ ~HasPrefix(Rq(h)) =>
                 OnlyError(h, "Invalid tool name: " \o NameGiven(Rq(h)))
            /\ HasPrefix(Rq(h)) /\ ~HasContent(Rq(h)) => OnlyError(h, "Missing content argument")
            /\ HasPrefix(Rq(h)) /\ HasContent(Rq(h)) /\ NoSuchPattern(h, Rq(h)) =>
                 OnlyError(h, "Pattern not found: " \o SubSeq(NameGiven(Rq(h)), 8, Len(NameGiven(Rq(h)))))

\* a tools/call with a name without the prefix, no content and no such pattern was
\* answered by the error of the prefix alone
C37_Witness ==
    \E h \in TransportTasks :
        /\ Answered(h)
        /\ Rq(h).params = JObj([name |-> JStr("b"), arguments |-> EmptyObj])
        /\ ~HasPrefix(Rq(h)) /\ ~HasContent(Rq(h))
        /\ OnlyError(h, "Invalid tool name: b")

(***************************************************************************)
(* Vocabulary of listed tools.                                             *)
(***************************************************************************)
\* the tool names of the tools/list answer of h
ListedNames(h) == {ToolsOf(Rs(h))[i].o["name"].s : i \in 1..Len(ToolsOf(Rs(h)))}
\* h1 has the answer of a tools/list and h2 that of a tools/call with string content,
\* both read from the same catalog contents
ListedThenCalled(h1, h2) ==
    /\ Answered(h1) /\ Rq(h1).method = "tools/list" /\ IsSuccess(Rs(h1))
    /\ Answered(h2) /\ IsToolsCall(Rq(h2)) /\ HasName(Rq(h2)) /\ HasContent(Rq(h2))
    /\ IsSome(snap[h1]) /\ snap[h2] = snap[h1]
\* the name with one leading "fabric_" removed
OncePrefixRemoved(n) == SubSeq(n, Len("fabric_") + 1, Len(n))
\* the text of the one content item of a tools/call answer
TextOf(rs) == Unwrap(rs.result).o["content"].a[1].o["text"].s

(***************************************************************************)
(* C38: for every tool name a tools/list returned, a tools/call with that  *)
(* name and any string content over the same catalog contents succeeds     *)
(* and uses the first pattern named as the listed name with one leading    *)
(* "fabric_" removed; one prefix only is removed, so a pattern whose own   *)
(* name starts with "fabric_" is found.                                    *)
(***************************************************************************)
C38_ListedToolsCallable ==
    \A h1 \in Listers, h2 \in Callers :
        ListedThenCalled(h1, h2) /\ NameGiven(Rq(h2)) \in ListedNames(h1) =>
            LET c == Unwrap(snap[h2])
                p == OncePrefixRemoved(NameGiven(Rq(h2)))
                named == {i \in 1..Len(c) : c[i].name = p}
            IN /\ IsSuccess(Rs(h2))
               /\ named # {}
               /\ StartsWith(TextOf(Rs(h2)),
                             "# System Prompt\n\n" \o c[Least(named)].system_prompt \o "\n\n# ")

\* the tool of the pattern named "fabric_a" was listed and then called with empty content
C38_Witness ==
    \E h1 \in Listers, h2 \in Callers :
        /\ ListedThenCalled(h1, h2)
        /\ "fabric_fabric_a" \in ListedNames(h1)
        /\ NameGiven(Rq(h2)) = "fabric_fabric_a"
        /\ Unwrap(Param(Rq(h2), "arguments")).o["content"] = JStr("")
        /\ IsSuccess(Rs(h2))

(***************************************************************************)
(* Vocabulary of the metadata of an ingested pattern.                      *)
(***************************************************************************)
\* load_pattern returned a pattern, and the pattern
Ingested == called = "load_pattern" /\ IsSome(called_ret) /\ Unwrap(called_ret).ok
IngestedPattern == Unwrap(called_ret).v
TagsOf(p) == {p.tags[k] : k \in 1..Len(p.tags)}
CategoryTags == <<"security", "writing", "coding">>
KnownTags == {"security", "writing", "coding", "analysis", "summarization"}

(***************************************************************************)
(* C39: of every pattern ingestion produces, every tag is one of security, *)
(* writing, coding, analysis, summarization; the category is present iff   *)
(* the tags include one of security, writing, coding; and when present it  *)
(* is the first of security, writing, coding, in that order, that the tags *)
(* contain.                                                                *)
(***************************************************************************)
C39_CategoryAmongTags ==
    Ingested =>
        LET p == IngestedPattern
            among == {k \in 1..Len(CategoryTags) : CategoryTags[k] \in TagsOf(p)}
        IN /\ TagsOf(p) \subseteq KnownTags
           /\ IsSome(p.category) <=> among # {}
           /\ among # {} => p.category = Some(CategoryTags[Least(among)])

\* a pattern ingested with the tags coding and writing: its category is writing
C39_Witness ==
    /\ Ingested
    /\ IngestedPattern.system_prompt = "\nSOFTWARE Article"
    /\ TagsOf(IngestedPattern) = {"coding", "writing"}
    /\ IngestedPattern.category = Some("writing")

====
